---- MODULE Spec2Model ----
(***************************************************************************)
(* A model of the statement-text-to-row pipeline of bank-transaction-parser *)
(* (src/lib/dataCleaner.ts, src/lib/pdfParser.ts, the category mapper).     *)
(*                                                                          *)
(* JavaScript strings are sequences of one-character strings; Chars("ab")   *)
(* writes the literal.  A JavaScript value is a record [t, v]: t is its     *)
(* type tag and v its payload.  A number is kept as an exact decimal: sign, *)
(* integer digits without leading zeros, fraction digits without trailing   *)
(* zeros (binary rounding of doubles is not modelled).                      *)
(***************************************************************************)
EXTENDS Integers, Sequences, FiniteSets, TLC

VARIABLES pc, args, locals, ret

vars == <<pc, args, locals, ret>>

(***************************************************************************)
(* Bounds of the model.                                                     *)
(***************************************************************************)
MaxCurLen == 3

MaxCells == 4

MaxRows == 3

MaxRules == 3

MaxLines == 3

(***************************************************************************)
(* Strings.                                                                 *)
(***************************************************************************)
Chars(str) == [k \in 1..Len(str) |-> SubSeq(str, k, k)]

LowerLetters == Chars("abcdefghijklmnopqrstuvwxyz")

UpperLetters == Chars("ABCDEFGHIJKLMNOPQRSTUVWXYZ")

Digits == {"0", "1", "2", "3", "4", "5", "6", "7", "8", "9"}

WhiteSpace == {" ", "\t", "\n", "\r"}

IsDigit(c) == c \in Digits

IsWS(c) == c \in WhiteSpace

toUpperCaseChar(c) ==
  IF \E k \in 1..26 : LowerLetters[k] = c
    THEN UpperLetters[CHOOSE k \in 1..26 : LowerLetters[k] = c]
    ELSE c

toLowerCaseChar(c) ==
  IF \E k \in 1..26 : UpperLetters[k] = c
    THEN LowerLetters[CHOOSE k \in 1..26 : UpperLetters[k] = c]
    ELSE c

toUpperCase(s) == [k \in 1..Len(s) |-> toUpperCaseChar(s[k])]

toLowerCase(s) == [k \in 1..Len(s) |-> toLowerCaseChar(s[k])]

\* s.substring(from - 1), 1-based: the suffix starting at index from.
Suffix(s, from) == SubSeq(s, from, Len(s))

\* every character of s[from..to] is white space (true of an empty range)
AllWS(s, from, to) == \A k \in from..to : IsWS(s[k])

\* the first index >= from holding a non-white-space character, or Len(s)+1
SkipWS(s, from) ==
  IF \E k \in from..Len(s) : ~IsWS(s[k])
    THEN CHOOSE k \in from..Len(s) : ~IsWS(s[k]) /\ AllWS(s, from, k - 1)
    ELSE Len(s) + 1

\* String.prototype.trim
trim(s) ==
  IF AllWS(s, 1, Len(s)) THEN <<>>
  ELSE LET a == SkipWS(s, 1)
           b == CHOOSE k \in 1..Len(s) : ~IsWS(s[k]) /\ AllWS(s, k + 1, Len(s))
       IN SubSeq(s, a, b)

\* w occurs in s at index k
OccursAt(s, k, w) ==
  /\ k >= 1
  /\ k + Len(w) - 1 <= Len(s)
  /\ SubSeq(s, k, k + Len(w) - 1) = w

\* String.prototype.endsWith
endsWith(s, w) == OccursAt(s, Len(s) - Len(w) + 1, w)

\* String.prototype.includes
includes(s, w) == \E k \in 1..(Len(s) + 1) : OccursAt(s, k, w)

\* s.replace(/[set]/g, '')
RemoveChars(s, set) == SelectSeq(s, LAMBDA c : c \notin set)

\* (s.match(/c/g) || []).length
CountChar(s, c) == Cardinality({k \in 1..Len(s) : s[k] = c})

\* the sequences over alphabet of length at most n
SeqsUpTo(alphabet, n) == UNION {[1..m -> alphabet] : m \in 0..n}

(***************************************************************************)
(* JavaScript values.                                                       *)
(***************************************************************************)
Null == [t |-> "null", v |-> <<>>]

Undefined == [t |-> "undefined", v |-> <<>>]

Str(s) == [t |-> "string", v |-> s]

NaN == [t |-> "NaN", v |-> <<>>]

\* the decimal number (-1)^neg * ip.fp, digits normalised
StripLeadingZeros(ds) ==
  IF \A k \in 1..Len(ds) : ds[k] = "0" THEN <<>>
  ELSE Suffix(ds, CHOOSE k \in 1..Len(ds) :
                    ds[k] # "0" /\ \A j \in 1..(k - 1) : ds[j] = "0")

StripTrailingZeros(ds) ==
  IF \A k \in 1..Len(ds) : ds[k] = "0" THEN <<>>
  ELSE SubSeq(ds, 1, CHOOSE k \in 1..Len(ds) :
                       ds[k] # "0" /\ \A j \in (k + 1)..Len(ds) : ds[j] = "0")

Num(neg, ip, fp) ==
  [t |-> "number", v |-> <<neg, StripLeadingZeros(ip), StripTrailingZeros(fp)>>]

\* ToBoolean of a value: null, undefined and '' are falsy
Truthy(x) == x.t = "string" /\ x.v # <<>>

\* String(x)
String(x) ==
  CASE x.t = "string" -> x.v
    [] x.t = "null" -> Chars("null")
    [] x.t = "undefined" -> Chars("undefined")
    [] OTHER -> Chars("NaN")

\* the end of the run of digits of s starting at index from (from - 1 if none)
DigitRunEnd(s, from) ==
  IF from <= Len(s) /\ IsDigit(s[from])
    THEN CHOOSE k \in from..Len(s) :
           /\ \A j \in from..k : IsDigit(s[j])
           /\ (k = Len(s) \/ ~IsDigit(s[k + 1]))
    ELSE from - 1

\* parseFloat on a string of digits, '.' and '-': the longest prefix that is
\* a decimal literal, NaN when no prefix is one
parseFloat(s) ==
  LET neg == Len(s) >= 1 /\ s[1] = "-"
      a == IF neg THEN 2 ELSE 1
      ie == DigitRunEnd(s, a)
      hasDot == ie + 1 <= Len(s) /\ s[ie + 1] = "."
      fe == IF hasDot THEN DigitRunEnd(s, ie + 2) ELSE ie
      ip == SubSeq(s, a, ie)
      fp == IF hasDot THEN SubSeq(s, ie + 2, fe) ELSE <<>>
  IN IF ip = <<>> /\ fp = <<>> THEN NaN ELSE Num(neg, ip, fp)

(***************************************************************************)
(* Currency Normalizer: cleanCurrencyValue (src/lib/dataCleaner.ts).        *)
(***************************************************************************)
RECURSIVE ReplaceRp(_, _)
\* s.replace(/[Rr][Pp]\s*/g, ''), scanning from index k
ReplaceRp(s, k) ==
  IF k > Len(s) THEN <<>>
  ELSE IF k + 1 <= Len(s) /\ s[k] \in {"R", "r"} /\ s[k + 1] \in {"P", "p"}
    THEN ReplaceRp(s, SkipWS(s, k + 2))
    ELSE <<s[k]>> \o ReplaceRp(s, k + 1)

\* the currency signs of /[$...]/g (the dollar sign stands for the class)
CurrencySigns == {"$"}

\* the alternation (DB|CR|DEBIT|CREDIT), in the order the regex tries it
Markers == <<Chars("DB"), Chars("CR"), Chars("DEBIT"), Chars("CREDIT")>>

\* the marker w occurs in s at index k, ignoring case (the i flag)
MarkerAt(s, k, w) ==
  /\ k + Len(w) - 1 <= Len(s)
  /\ toUpperCase(SubSeq(s, k, k + Len(w) - 1)) = w

\* s[k..] matches \s*(DB|CR|DEBIT|CREDIT)\s*$
SuffixIsMarker(s, k) ==
  LET j == SkipWS(s, k)
  IN \E m \in 1..Len(Markers) :
       /\ MarkerAt(s, j, Markers[m])
       /\ AllWS(s, j + Len(Markers[m]), Len(s))

\* s.replace(/\s*(DB|CR|DEBIT|CREDIT)\s*$/gi, ''): the leftmost match goes
ReplaceTrailingMarker(s) ==
  IF \E k \in 1..Len(s) : SuffixIsMarker(s, k)
    THEN SubSeq(s, 1, (CHOOSE k \in 1..Len(s) :
                         /\ SuffixIsMarker(s, k)
                         /\ \A j \in 1..(k - 1) : ~SuffixIsMarker(s, j)) - 1)
    ELSE s

\* the length of the first alternative of (DB|CR|DEBIT|CREDIT) that matches
\* at index k; 0 when none does
MarkerLenAt(s, k) ==
  IF \E m \in 1..Len(Markers) : MarkerAt(s, k, Markers[m])
    THEN Len(Markers[CHOOSE m \in 1..Len(Markers) :
                       /\ MarkerAt(s, k, Markers[m])
                       /\ \A n \in 1..(m - 1) : ~MarkerAt(s, k, Markers[n])])
    ELSE 0

RECURSIVE ReplaceMarkers(_, _)
\* s.replace(/\s*(DB|CR|DEBIT|CREDIT)\s*/gi, ' '), scanning from index k
ReplaceMarkers(s, k) ==
  IF k > Len(s) THEN <<>>
  ELSE LET j == SkipWS(s, k)
           n == MarkerLenAt(s, j)
       IN IF n > 0
            THEN <<" ">> \o ReplaceMarkers(s, SkipWS(s, j + n))
            ELSE <<s[k]>> \o ReplaceMarkers(s, k + 1)

\* s.replace(c, d): the first occurrence only
ReplaceFirst(s, c, d) ==
  IF \E k \in 1..Len(s) : s[k] = c
    THEN LET p == CHOOSE k \in 1..Len(s) :
                    s[k] = c /\ \A j \in 1..(k - 1) : s[j] # c
         IN [k \in 1..Len(s) |-> IF k = p THEN d ELSE s[k]]
    ELSE s

\* s.split(',')[1] when s holds a comma: the text between the first comma
\* and the next one (or the end)
SecondPart(s) ==
  LET p == CHOOSE k \in 1..Len(s) : s[k] = "," /\ \A j \in 1..(k - 1) : s[j] # ","
      rest == Suffix(s, p + 1)
  IN IF \E k \in 1..Len(rest) : rest[k] = ","
       THEN SubSeq(rest, 1, (CHOOSE k \in 1..Len(rest) :
                               rest[k] = "," /\ \A j \in 1..(k - 1) : rest[j] # ",") - 1)
       ELSE rest

\* s.split(',')[0] when s holds a comma
FirstPart(s) ==
  SubSeq(s, 1, (CHOOSE k \in 1..Len(s) :
                  s[k] = "," /\ \A j \in 1..(k - 1) : s[j] # ",") - 1)

\* lines 32-65: which of ',' and '.' is the decimal point
DisambiguateSeparators(s) ==
  IF includes(s, <<",">>) /\ includes(s, <<".">>)
    THEN RemoveChars(s, {","})
  ELSE IF includes(s, <<",">>)
    THEN LET commaCount == CountChar(s, ",")
             part1 == SecondPart(s)
         IN IF commaCount > 1 \/ (commaCount = 1 /\ part1 # <<>> /\ Len(part1) <= 2)
              THEN ReplaceFirst(RemoveChars(s, {"."}), ",", ".")
            ELSE IF commaCount = 1 /\ Len(part1) <= 2
              THEN RemoveChars(FirstPart(s), {"."}) \o <<".">> \o part1
            ELSE RemoveChars(s, {","})
  ELSE IF CountChar(s, ".") > 1
    THEN RemoveChars(s, {"."})
  ELSE s

\* s.replace(/[^\d.\-]/g, '')
KeepNumeric(s) == SelectSeq(s, LAMBDA c : IsDigit(c) \/ c \in {".", "-"})

\* lines 22-68: the string handed to parseFloat
NumericText(s) ==
  KeepNumeric(
    DisambiguateSeparators(
      ReplaceMarkers(
        ReplaceTrailingMarker(
          RemoveChars(ReplaceRp(s, 1), CurrencySigns)), 1)))

\* a variant that lets blank input through to parseFloat
cleanCurrencyValue_NoBlankCheck(value) ==
  parseFloat(NumericText(trim(String(value))))

cleanCurrencyValue(value) ==
  IF value.t \in {"null", "undefined"} \/ value = Str(<<>>) THEN Null
  ELSE LET valueStr == trim(String(value))
       IN IF valueStr = <<>> THEN Null
          ELSE LET cleaned == NumericText(valueStr)
               IN IF cleaned # <<>> THEN parseFloat(cleaned) ELSE Null

(***************************************************************************)
(* Specification of the Currency Normalizer: one call on one input.         *)
(***************************************************************************)
NoValue == [t |-> "none", v |-> <<>>]

CurrencyAlphabet == {"1", "5", ",", ".", "-", " ", "D", "B"}

CurrencySamples ==
  {Chars("1.000.000,50"), Chars("98,779,762.35"), Chars("23,400.00"),
   Chars("Rp 1.500"), Chars("$12,5"), Chars("1,50DB"), Chars("2,500 CR"),
   Chars("5 credit 1"), Chars(" \t"), Chars("\n")}

CurrencyInputs ==
  {Null, Undefined}
    \cup {Str(s) : s \in SeqsUpTo(CurrencyAlphabet, MaxCurLen) \cup CurrencySamples}

InitCurrency ==
  /\ pc = "cleanCurrencyValue"
  /\ args \in {[value |-> x] : x \in CurrencyInputs}
  /\ locals = <<>>
  /\ ret = NoValue

CallCleanCurrencyValue ==
  /\ pc = "cleanCurrencyValue"
  /\ ret' = cleanCurrencyValue(args.value)
  /\ pc' = "done"
  /\ UNCHANGED <<args, locals>>

NextCurrency == CallCleanCurrencyValue

SpecCurrency == InitCurrency /\ [][NextCurrency]_vars

\* the call of cleanCurrencyValue on the string str has returned
CurrencyReturned(str) ==
  pc = "done" /\ args = [value |-> Str(Chars(str))]

\* C1: cleanCurrencyValue maps "1.000.000,50", "98,779,762.35" and
\* "23,400.00" to 1000000.5, 98779762.35 and 23400.
C1_SampleValues ==
  /\ CurrencyReturned("1.000.000,50")
       => ret = Num(FALSE, Chars("1000000"), Chars("5"))
  /\ CurrencyReturned("98,779,762.35")
       => ret = Num(FALSE, Chars("98779762"), Chars("35"))
  /\ CurrencyReturned("23,400.00")
       => ret = Num(FALSE, Chars("23400"), <<>>)

\* what the code does return for the three strings of C1
C1_Observed ==
  /\ CurrencyReturned("1.000.000,50") => ret = Num(FALSE, Chars("1"), <<>>)
  /\ CurrencyReturned("98,779,762.35")
       => ret = Num(FALSE, Chars("98779762"), Chars("35"))
  /\ CurrencyReturned("23,400.00")
       => ret = Num(FALSE, Chars("23400"), <<>>)

\* C3: cleanCurrencyValue returns null or a real number, never NaN: text
\* that is left unparseable after stripping gives null.
C3_NullOrNumber ==
  pc = "done" => ret = Null \/ ret.t = "number"

\* the value is null, undefined, empty or white space only
IsBlankValue(x) ==
  \/ x.t \in {"null", "undefined"}
  \/ x.t = "string" /\ AllWS(x.v, 1, Len(x.v))

\* C4: for null, undefined, empty and whitespace-only input,
\* cleanCurrencyValue returns null.
C4_BlankGivesNull ==
  pc = "done" /\ IsBlankValue(args.value) => ret = Null

C4_Witness ==
  /\ pc = "done"
  /\ args.value = Str(<<" ", " ">>)
  /\ ret = Null

(***************************************************************************)
(* Row Validator: isValidTransactionRow (src/lib/dataCleaner.ts).           *)
(* A row is a sequence of cells; row[0] of the code is row[1] here.         *)
(***************************************************************************)
\* row[k - 1]: undefined beyond the end of the array
Cell(row, k) == IF k <= Len(row) THEN row[k] ELSE Undefined

\* cell ? String(cell).trim() : ""
CellText(cell) == IF Truthy(cell) THEN trim(String(cell)) ELSE <<>>

\* /\d{1,2}\/\d{1,2}/.test(s): a digit, a slash, a digit, anywhere in s
DatePatternTest(s) ==
  \E k \in 1..(Len(s) - 2) : IsDigit(s[k]) /\ s[k + 1] = "/" /\ IsDigit(s[k + 2])

\* cell === null || cell === undefined || String(cell).trim() === ""
IsEmptyCell(cell) ==
  cell.t \in {"null", "undefined"} \/ trim(String(cell)) = <<>>

\* a variant that forgets the header check of lines 97-101
isValidTransactionRow_NoHeaderCheck(row) ==
  IF Len(row) < 2 THEN FALSE
  ELSE IF \A k \in 1..Len(row) : IsEmptyCell(row[k]) THEN FALSE
  ELSE IF DatePatternTest(CellText(Cell(row, 1))) THEN TRUE
  ELSE CellText(Cell(row, 2)) # <<>> \/ CellText(Cell(row, 3)) # <<>>

isValidTransactionRow(row) ==
  IF Len(row) < 2 THEN FALSE
  ELSE IF includes(toUpperCase(CellText(Cell(row, 1))), Chars("TANGGAL")) THEN FALSE
  ELSE IF \A k \in 1..Len(row) : IsEmptyCell(row[k]) THEN FALSE
  ELSE IF DatePatternTest(CellText(Cell(row, 1))) THEN TRUE
  ELSE CellText(Cell(row, 2)) # <<>> \/ CellText(Cell(row, 3)) # <<>>

\* rows.filter(isValidTransactionRow)
FilterValid(rows) == SelectSeq(rows, isValidTransactionRow)

(***************************************************************************)
(* Line Merger: mergeTransactionLines (src/lib/dataCleaner.ts).             *)
(* The loop state is [mergedRows, currentTransaction]; currentTransaction   *)
(* is <<>> for null and <<row>> for an accumulator.                         *)
(***************************************************************************)
MergeStart == [mergedRows |-> <<>>, currentTransaction |-> <<>>]

\* a variant of AppendText that joins the two texts without the space
AppendText_NoSpace(cur, row, k) ==
  LET value == CellText(row[k])
  IN IF value # <<>> THEN [cur EXCEPT ![k] = Str(CellText(cur[k]) \o value)] ELSE cur

\* lines 158-170: append the continuation's text to cell k of cur
AppendText(cur, row, k) ==
  LET value == CellText(row[k])
      current == CellText(cur[k])
  IN IF value # <<>>
       THEN [cur EXCEPT ![k] =
               Str(IF current # <<>> THEN current \o <<" ">> \o value ELSE value)]
       ELSE cur

\* a variant of Backfill that overwrites a known amount or balance
Backfill_Overwrite(cur, row, k) ==
  LET value == CellText(row[k])
  IN IF value # <<>> THEN [cur EXCEPT ![k] = Str(value)] ELSE cur

\* lines 172-181: fill cell k of cur from the continuation only if it is empty
Backfill(cur, row, k) ==
  LET value == CellText(row[k])
  IN IF value # <<>> /\ (~Truthy(cur[k]) \/ trim(String(cur[k])) = <<>>)
       THEN [cur EXCEPT ![k] = Str(value)]
       ELSE cur

\* lines 156-182: merge a continuation row into the accumulator
MergeContinuation(cur, row) ==
  Backfill(Backfill(AppendText(AppendText(cur, row, 3), row, 2), row, 4), row, 5)

\* a variant of MergeStep in which a short row discards the pending transaction
MergeStep_ShortResets(st, row) ==
  IF Len(row) < 5 THEN [st EXCEPT !.currentTransaction = <<>>]
  ELSE IF DatePatternTest(trim(IF Truthy(row[1]) THEN String(row[1]) ELSE <<>>))
    THEN [mergedRows |-> st.mergedRows \o st.currentTransaction,
          currentTransaction |-> <<row>>]
  ELSE IF st.currentTransaction # <<>>
    THEN [st EXCEPT !.currentTransaction =
            <<MergeContinuation(st.currentTransaction[1], row)>>]
  ELSE st

\* lines 138-183: one iteration of the loop over rows
MergeStep(st, row) ==
  IF Len(row) < 5 THEN st
  ELSE IF DatePatternTest(trim(IF Truthy(row[1]) THEN String(row[1]) ELSE <<>>))
    THEN [mergedRows |-> st.mergedRows \o st.currentTransaction,
          currentTransaction |-> <<row>>]
  ELSE IF st.currentTransaction # <<>>
    THEN [st EXCEPT !.currentTransaction =
            <<MergeContinuation(st.currentTransaction[1], row)>>]
  ELSE st

\* a variant of MergeResult that leaves the pending transaction out
MergeResult_DropsLast(st) == st.mergedRows

\* lines 186-191: push the last transaction and return
MergeResult(st) == st.mergedRows \o st.currentTransaction

RECURSIVE MergeFrom(_, _, _)
MergeFrom(st, rows, k) ==
  IF k > Len(rows) THEN st ELSE MergeFrom(MergeStep(st, rows[k]), rows, k + 1)

mergeTransactionLines(rows) == MergeResult(MergeFrom(MergeStart, rows, 1))

(***************************************************************************)
(* Transaction Cleaner: cleanTransactionData (src/lib/dataCleaner.ts).      *)
(***************************************************************************)
\* lines 210-224: a merged row as a TransactionRow (no CATEGORY yet)
ToTransactionRow(row) ==
  [TANGGAL |-> CellText(Cell(row, 1)),
   KETERANGAN |-> CellText(Cell(row, 2)),
   DETAIL_TRANSAKSI |-> CellText(Cell(row, 3)),
   MUTASI |-> cleanCurrencyValue(IF Len(row) < 4 THEN Null ELSE row[4]),
   SALDO |-> cleanCurrencyValue(IF Len(row) < 5 THEN Null ELSE row[5]),
   CATEGORY |-> NoValue]

\* lines 225-228: row.TANGGAL && row.TANGGAL.trim() !== ""
HasTanggal(rec) == rec.TANGGAL # <<>> /\ trim(rec.TANGGAL) # <<>>

MapRows(rows) == [k \in 1..Len(rows) |-> ToTransactionRow(rows[k])]

\* a variant that maps the valid rows without merging or filtering them
cleanTransactionData_Unmerged(rawRows) == MapRows(FilterValid(rawRows))

\* a variant that returns the records last transaction first
cleanTransactionData_Reversed(rawRows) ==
  SelectSeq(MapRows([k \in 1..Len(mergeTransactionLines(FilterValid(rawRows))) |->
                       mergeTransactionLines(FilterValid(rawRows))[
                         Len(mergeTransactionLines(FilterValid(rawRows))) + 1 - k]]),
            HasTanggal)

cleanTransactionData(rawRows) ==
  SelectSeq(MapRows(mergeTransactionLines(FilterValid(rawRows))), HasTanggal)

(***************************************************************************)
(* Specification of the Row Validator: one call on one row.                 *)
(***************************************************************************)
T(str) == Str(Chars(str))

FirstCells ==
  {Null, Undefined, T(""), T(" "), T("A"), T("01/02"), T(" 1/2 "), T("1-2"),
   T("x3/4y"), T("TANGGAL"), T(" tanggal x"), T("1/2 Tanggal")}

OtherCells == {Null, T(""), T(" "), T("a")}

ValidatorRows ==
  {<<>>}
    \cup UNION {{<<c>> \o rest : c \in FirstCells, rest \in [1..m -> OtherCells]} :
                  m \in 0..(MaxCells - 1)}

InitValidator ==
  /\ pc = "isValidTransactionRow"
  /\ args \in {[row |-> r] : r \in ValidatorRows}
  /\ locals = <<>>
  /\ ret = NoValue

CallIsValidTransactionRow ==
  /\ pc = "isValidTransactionRow"
  /\ ret' = isValidTransactionRow(args.row)
  /\ pc' = "done"
  /\ UNCHANGED <<args, locals>>

NextValidator == CallIsValidTransactionRow

SpecValidator == InitValidator /\ [][NextValidator]_vars

\* the text of a cell as the claim reads it: empty for null and undefined
ClaimText(cell) == IF cell.t = "string" THEN cell.v ELSE <<>>

ClaimNonBlank(cell) == \E k \in 1..Len(ClaimText(cell)) : ~IsWS(ClaimText(cell)[k])

ClaimHolds(txt, word) ==
  \E k \in 1..Len(txt) :
    /\ k + Len(word) - 1 <= Len(txt)
    /\ \A j \in 1..Len(word) : toUpperCaseChar(txt[k + j - 1]) = word[j]

ClaimDateFragment(txt) ==
  \E k \in 1..Len(txt) :
    /\ k + 2 <= Len(txt)
    /\ txt[k] \in Digits /\ txt[k + 1] = "/" /\ txt[k + 2] \in Digits

\* the ordered decision of C8
C8_Decision(row) ==
  CASE Len(row) < 2 -> FALSE
    [] Len(row) >= 2 /\ ClaimHolds(ClaimText(row[1]), Chars("TANGGAL")) -> FALSE
    [] OTHER ->
         IF \A k \in 1..Len(row) : ~ClaimNonBlank(row[k]) THEN FALSE
         ELSE IF ClaimDateFragment(ClaimText(row[1])) THEN TRUE
         ELSE ClaimNonBlank(row[2]) \/ (Len(row) >= 3 /\ ClaimNonBlank(row[3]))

\* C8: isValidTransactionRow is the ordered decision: fewer than 2 cells,
\* no; first cell holds TANGGAL, no; every cell blank, no; first cell holds a
\* day/month fragment, yes; else yes exactly when cell 2 or 3 is non-blank.
C8_ValidatorDecision ==
  pc = "done" /\ "row" \in DOMAIN args => ret = C8_Decision(args.row)

C8_Witness ==
  /\ pc = "done"
  /\ args = [row |-> <<T(" tanggal x"), T("a"), Null>>]
  /\ ret = FALSE

(***************************************************************************)
(* Specification of the Line Merger: the loop of mergeTransactionLines, one *)
(* row per step, over every sequence of at most MaxRows sample rows.        *)
(***************************************************************************)
RowD1 == <<T("01/02"), T("A"), T("detail1"), T("100"), T("900")>>

RowD2 == <<T("3/4"), T(" B "), Null, T(""), T("900")>>

RowD3 == <<T(" 15/06 "), Null, T(" d "), T(" "), Null>>

RowK1 == <<Null, Null, T("detail2"), Null, Null>>

RowK2 == <<T(""), T(""), T(" "), T("50"), T("")>>

RowK3 == <<T(""), T(" k "), T(" x y "), T(" 7 "), T("8")>>

RowK4 == <<T("05-06"), T("C"), T("e"), T("1"), T("2")>>

RowK5 == <<Undefined, T("m"), Null, Null, T("60")>>

RowS1 == <<T("07/08"), T("A"), T("d"), T("9")>>

RowS2 == <<T(""), T("z")>>

RowH == <<T("TANGGAL"), T("KETERANGAN"), T("DETAIL TRANSAKSI"), T("MUTASI"), T("SALDO")>>

RowE == <<Null, T(""), T(" "), Null, Undefined>>

SampleRows ==
  {RowD1, RowD2, RowD3, RowK1, RowK2, RowK3, RowK4, RowK5, RowS1, RowS2, RowH, RowE}

RowSeqs == SeqsUpTo(SampleRows, MaxRows)

InitMerger ==
  /\ pc = "mergeTransactionLines"
  /\ args \in {[rows |-> rs] : rs \in RowSeqs}
  /\ locals = [k |-> 1] @@ MergeStart
  /\ ret = NoValue

\* the row the loop is at
CurrentRow == args.rows[locals.k]

StartsTransaction(row) ==
  DatePatternTest(trim(IF Truthy(row[1]) THEN String(row[1]) ELSE <<>>))

MergeLoopStep ==
  locals' = [k |-> locals.k + 1] @@ MergeStep(locals, CurrentRow)

\* line 138: a row of fewer than 5 cells is passed over
MergeSkipShort ==
  /\ pc = "mergeTransactionLines"
  /\ locals.k <= Len(args.rows)
  /\ Len(CurrentRow) < 5
  /\ MergeLoopStep
  /\ UNCHANGED <<pc, args, ret>>

\* lines 147-154: a dated row flushes the accumulator and replaces it
MergeNewTransaction ==
  /\ pc = "mergeTransactionLines"
  /\ locals.k <= Len(args.rows)
  /\ Len(CurrentRow) >= 5
  /\ StartsTransaction(CurrentRow)
  /\ MergeLoopStep
  /\ UNCHANGED <<pc, args, ret>>

\* lines 155-183: an undated row is merged into the accumulator, if any
MergeContinuationRow ==
  /\ pc = "mergeTransactionLines"
  /\ locals.k <= Len(args.rows)
  /\ Len(CurrentRow) >= 5
  /\ ~StartsTransaction(CurrentRow)
  /\ MergeLoopStep
  /\ UNCHANGED <<pc, args, ret>>

\* lines 186-191
MergeReturn ==
  /\ pc = "mergeTransactionLines"
  /\ locals.k > Len(args.rows)
  /\ ret' = MergeResult(locals)
  /\ pc' = "done"
  /\ UNCHANGED <<args, locals>>

NextMerger ==
  \/ MergeSkipShort
  \/ MergeNewTransaction
  \/ MergeContinuationRow
  \/ MergeReturn

SpecMerger == InitMerger /\ [][NextMerger]_vars

\* mergeTransactionLines has returned for a dated 5-cell row followed only by
\* undated 5-cell rows
C5_Case ==
  /\ pc = "done"
  /\ Len(args.rows) >= 1
  /\ Len(args.rows[1]) = 5
  /\ ClaimDateFragment(ClaimText(args.rows[1][1]))
  /\ \A k \in 2..Len(args.rows) :
       Len(args.rows[k]) = 5 /\ ~ClaimDateFragment(ClaimText(args.rows[k][1]))

\* the trimmed texts of cell c of the rows, in order
TrimmedTexts(rows, c) == [k \in 1..Len(rows) |-> trim(ClaimText(rows[k][c]))]

RECURSIVE JoinNonEmpty(_)
\* the non-empty texts joined by exactly one space
JoinNonEmpty(texts) ==
  IF texts = <<>> THEN <<>>
  ELSE LET rest == JoinNonEmpty(Tail(texts))
       IN IF Head(texts) = <<>> THEN rest
          ELSE IF rest = <<>> THEN Head(texts)
          ELSE Head(texts) \o <<" ">> \o rest

\* some continuation row carries text in cell c
ContinuationHasText(rows, c) ==
  \E k \in 2..Len(rows) : TrimmedTexts(rows, c)[k] # <<>>

\* C5 as stated: the one output row's detail (and short description) is the
\* dated row's trimmed text followed by each continuation's non-empty trimmed
\* text, joined by single spaces.
C5_JoinAlwaysTrimmed ==
  C5_Case =>
    /\ Len(ret) = 1
    /\ \A c \in {2, 3} : ClaimText(ret[1][c]) = JoinNonEmpty(TrimmedTexts(args.rows, c))

\* C5 as amended: the join of the trimmed texts when some continuation row
\* carries text in that column; otherwise the dated row's cell is returned as
\* it came, untrimmed.  The date, and the example of the claim, are kept.
C5_JoinOrUntouched ==
  /\ C5_Case =>
       /\ Len(ret) = 1
       /\ ret[1][1] = args.rows[1][1]
       /\ \A c \in {2, 3} :
            IF ContinuationHasText(args.rows, c)
              THEN ret[1][c] = Str(JoinNonEmpty(TrimmedTexts(args.rows, c)))
              ELSE ret[1][c] = args.rows[1][c]
  /\ pc = "done" /\ args.rows = <<RowD1, RowK1>> =>
       ret = <<<<T("01/02"), T("A"), T("detail1 detail2"), T("100"), T("900")>>>>

C5_Witness ==
  /\ pc = "done"
  /\ args.rows = <<RowD1, RowK1, RowK3>>
  /\ ret = <<<<T("01/02"), T("A k"), T("detail1 detail2 x y"), T("100"), T("900")>>>>

\* the loop is at an undated row of 5 cells and holds an accumulator
C6_AtContinuation ==
  /\ pc = "mergeTransactionLines"
  /\ locals.k <= Len(args.rows)
  /\ Len(CurrentRow) >= 5
  /\ ~ClaimDateFragment(ClaimText(CurrentRow[1]))
  /\ locals.currentTransaction # <<>>

\* C6: a continuation row never changes an amount (cell 4) or balance
\* (cell 5) of the accumulator that is non-blank; it changes one only when
\* the accumulator's cell is blank, and then to its own trimmed value.
C6_OnlyFillsGaps ==
  [][C6_AtContinuation =>
       \A c \in {4, 5} :
         LET before == locals.currentTransaction[1][c]
             after == locals'.currentTransaction[1][c]
         IN /\ ClaimNonBlank(before) => after = before
            /\ after # before =>
                 /\ ~ClaimNonBlank(before)
                 /\ after = Str(trim(ClaimText(CurrentRow[c])))]_vars

C6_Witness ==
  /\ pc = "mergeTransactionLines"
  /\ locals.k = 3
  /\ SubSeq(args.rows, 1, 2) = <<RowD2, RowK3>>
  /\ locals.currentTransaction = <<<<T("3/4"), T("B k"), T("x y"), T("7"), T("900")>>>>

(***************************************************************************)
(* Specification of the Transaction Cleaner: one call on one row sequence.  *)
(***************************************************************************)
InitCleaner ==
  /\ pc = "cleanTransactionData"
  /\ args \in {[rawRows |-> rs] : rs \in RowSeqs}
  /\ locals = <<>>
  /\ ret = NoValue

CallCleanTransactionData ==
  /\ pc = "cleanTransactionData"
  /\ ret' = cleanTransactionData(args.rawRows)
  /\ pc' = "done"
  /\ UNCHANGED <<args, locals>>

NextCleaner == CallCleanTransactionData

SpecCleaner == InitCleaner /\ [][NextCleaner]_vars

\* C7: every record cleanTransactionData returns has a TANGGAL that is not
\* blank; no row with a blank date reaches the output.
C7_RecordsAreDated ==
  pc = "done" =>
    \A k \in 1..Len(ret) : \E j \in 1..Len(ret[k].TANGGAL) : ~IsWS(ret[k].TANGGAL[j])

C7_Witness ==
  /\ pc = "done"
  /\ args.rawRows = <<RowK1, RowD3, RowK5>>
  /\ Len(ret) = 1
  /\ ret[1].TANGGAL = Chars("15/06")
  /\ ret[1].KETERANGAN = Chars("m")

(***************************************************************************)
(* Category Mapper: mapCategory (src/unnamed/part_001).                     *)
(* A rule is [category, keywords]: category a value, keywords an array      *)
(* value [t |-> "array", v |-> <<keyword values>>] or null.                 *)
(***************************************************************************)
Uncategorized == Chars("Uncategorized")

Array(elems) == [t |-> "array", v |-> elems]

\* catDict.category || ''
CategoryName(catDict) ==
  IF Truthy(catDict.category) THEN String(catDict.category) ELSE <<>>

\* catDict.keywords || []
Keywords(catDict) ==
  IF catDict.keywords.t = "array" THEN catDict.keywords.v ELSE <<>>

RECURSIVE AnyKeywordMatches(_, _, _)
\* lines 36-41: the loop over the keywords of one rule, from index k
AnyKeywordMatches(keywords, k, descriptionLower) ==
  IF k > Len(keywords) THEN FALSE
  ELSE LET keywordLower == trim(toLowerCase(String(keywords[k])))
       IN IF keywordLower # <<>> /\ includes(descriptionLower, keywordLower)
            THEN TRUE
            ELSE AnyKeywordMatches(keywords, k + 1, descriptionLower)

RECURSIVE ScanCategories(_, _, _)
\* lines 27-45: the loop over the rules, from index k
ScanCategories(categoryConfig, k, descriptionLower) ==
  IF k > Len(categoryConfig) THEN Uncategorized
  ELSE LET categoryName == CategoryName(categoryConfig[k])
           keywords == Keywords(categoryConfig[k])
       IN IF categoryName = <<>> \/ Len(keywords) = 0
            THEN ScanCategories(categoryConfig, k + 1, descriptionLower)
          ELSE IF AnyKeywordMatches(keywords, 1, descriptionLower)
            THEN categoryName
          ELSE ScanCategories(categoryConfig, k + 1, descriptionLower)

\* a variant that compares the description without lowercasing it
mapCategory_CaseSensitive(description, categoryConfig) ==
  IF ~Truthy(description) THEN Uncategorized
  ELSE LET descriptionLower == trim(String(description))
       IN IF descriptionLower = <<>> THEN Uncategorized
          ELSE ScanCategories(categoryConfig, 1, descriptionLower)

\* a variant without the guards of lines 16-24: null is matched as "null"
mapCategory_NoGuard(description, categoryConfig) ==
  ScanCategories(categoryConfig, 1, trim(toLowerCase(String(description))))

mapCategory(description, categoryConfig) ==
  IF ~Truthy(description) THEN Uncategorized
  ELSE LET descriptionLower == trim(toLowerCase(String(description)))
       IN IF descriptionLower = <<>> THEN Uncategorized
          ELSE ScanCategories(categoryConfig, 1, descriptionLower)

(***************************************************************************)
(* Specification of the Category Mapper: one call on one description and    *)
(* one list of at most MaxRules sample rules.                               *)
(***************************************************************************)
Rule(name, keywords) == [category |-> name, keywords |-> keywords]

SampleRules ==
  {Rule(T("Grocery"), Array(<<T("indomaret")>>)),
   Rule(T("X"), Array(<<T(" ")>>)),
   Rule(T("Y"), Array(<<T("a")>>)),
   Rule(T(""), Array(<<T("b")>>)),
   Rule(T("Z"), Array(<<>>)),
   Rule(Null, Array(<<T("ab")>>)),
   Rule(T("W"), Null),
   Rule(T("V"), Array(<<T("zz"), T(" B "), T("Un")>>))}

SampleDescriptions ==
  {Null, Undefined, T(""), T(" \t"), T("PAYMENT INDOMARET JKT"), T("abc"),
   T(" Bx "), T("q")}

InitMapper ==
  /\ pc = "mapCategory"
  /\ args \in {[description |-> d, categoryConfig |-> c] :
                 d \in SampleDescriptions, c \in SeqsUpTo(SampleRules, MaxRules)}
  /\ locals = <<>>
  /\ ret = NoValue

CallMapCategory ==
  /\ pc = "mapCategory"
  /\ ret' = mapCategory(args.description, args.categoryConfig)
  /\ pc' = "done"
  /\ UNCHANGED <<args, locals>>

NextMapper == CallMapCategory

SpecMapper == InitMapper /\ [][NextMapper]_vars

\* the lowercased, trimmed form of a text
LowerTrim(txt) == trim([k \in 1..Len(txt) |-> toLowerCaseChar(txt[k])])

\* w is a substring of txt (the empty text is a substring of every text)
IsSubstring(w, txt) ==
  \E k \in 0..(Len(txt) - Len(w)) : \A j \in 1..Len(w) : txt[k + j] = w[j]

ClaimRuleName(rule) == ClaimText(rule.category)

ClaimRuleKeywords(rule) ==
  IF rule.keywords.t = "array" THEN rule.keywords.v ELSE <<>>

\* the rule qualifies as C9 states it
C9_QualifiesAsStated(rule, description) ==
  /\ ClaimRuleName(rule) # <<>>
  /\ ClaimRuleKeywords(rule) # <<>>
  /\ \E k \in 1..Len(ClaimRuleKeywords(rule)) :
       IsSubstring(LowerTrim(ClaimText(ClaimRuleKeywords(rule)[k])),
                   LowerTrim(ClaimText(description)))

\* the rule qualifies, a keyword of blank form counting for nothing
C9_Qualifies(rule, description) ==
  /\ ClaimRuleName(rule) # <<>>
  /\ \E k \in 1..Len(ClaimRuleKeywords(rule)) :
       /\ LowerTrim(ClaimText(ClaimRuleKeywords(rule)[k])) # <<>>
       /\ IsSubstring(LowerTrim(ClaimText(ClaimRuleKeywords(rule)[k])),
                      LowerTrim(ClaimText(description)))

\* C9 as stated: for a non-empty description the result is the name of the
\* first rule with a non-empty name, a non-empty keyword list and a keyword
\* whose lowercased, trimmed form is a substring of the lowercased, trimmed
\* description.
C9_FirstRuleAsStated ==
  pc = "done" /\ ClaimText(args.description) # <<>> =>
    \A k \in 1..Len(args.categoryConfig) :
      /\ C9_QualifiesAsStated(args.categoryConfig[k], args.description)
      /\ \A j \in 1..(k - 1) :
           ~C9_QualifiesAsStated(args.categoryConfig[j], args.description)
      => ret = ClaimRuleName(args.categoryConfig[k])

\* C9 as amended: the same, for keywords whose lowercased, trimmed form is
\* not empty; a keyword of blank form never matches.
C9_FirstMatchingRule ==
  pc = "done" /\ ClaimText(args.description) # <<>> =>
    \A k \in 1..Len(args.categoryConfig) :
      /\ C9_Qualifies(args.categoryConfig[k], args.description)
      /\ \A j \in 1..(k - 1) : ~C9_Qualifies(args.categoryConfig[j], args.description)
      => ret = ClaimRuleName(args.categoryConfig[k])

C9_Witness ==
  /\ pc = "done"
  /\ args.description = T("PAYMENT INDOMARET JKT")
  /\ args.categoryConfig =
       <<Rule(T("X"), Array(<<T(" ")>>)), Rule(T("Z"), Array(<<>>)),
         Rule(T("Grocery"), Array(<<T("indomaret")>>))>>
  /\ ret = Chars("Grocery")

NumChars == Digits \cup {".", ",", "-"}

CharAt(s, k) == IF k >= 1 /\ k <= Len(s) THEN s[k] ELSE ""

RECURSIVE RunEnd(_, _, _)
\* the last index of the run of characters of set that starts at index k
\* (k - 1 when s[k] is not in set)
RunEnd(s, k, set) ==
  IF k <= Len(s) /\ s[k] \in set THEN RunEnd(s, k + 1, set) ELSE k - 1

\* the end of the match of \d{1,2}[\/\-]\d{1,2} at index k, 0 when none
DateFragmentEnd(s, k) ==
  LET a == RunEnd(s, k, Digits)
      sep == IF a - k + 1 >= 2 THEN k + 2 ELSE k + 1
  IN IF /\ CharAt(s, k) \in Digits
        /\ CharAt(s, sep) \in {"/", "-"}
        /\ CharAt(s, sep - 1) \in Digits
        /\ CharAt(s, sep + 1) \in Digits
       THEN IF CharAt(s, sep + 2) \in Digits THEN sep + 2 ELSE sep + 1
       ELSE 0

\* the end of the match of [\d.,\-]+(?:\s*(?:DB|CR))? at index k, k - 1 when
\* none
NumberTokenEnd(s, k) ==
  LET r == RunEnd(s, k, NumChars)
      m == RunEnd(s, r + 1, WhiteSpace) + 1
  IN IF r < k THEN k - 1
     ELSE IF OccursAt(s, m, Chars("DB")) \/ OccursAt(s, m, Chars("CR")) THEN m + 1
     ELSE r

RECURSIVE NumberTokens(_, _)
\* lines 87-93: the matches of numberPattern in s from index k, trimmed
NumberTokens(s, k) ==
  IF k > Len(s) THEN <<>>
  ELSE IF s[k] \in NumChars
    THEN LET e == NumberTokenEnd(s, k)
         IN <<SubSeq(s, k, e)>> \o NumberTokens(s, e + 1)
    ELSE NumberTokens(s, k + 1)

\* s.replace(w, ''): the first occurrence of the string w is removed
RemoveFirst(s, w) ==
  IF w # <<>> /\ includes(s, w)
    THEN LET p == CHOOSE k \in 1..Len(s) :
                    OccursAt(s, k, w) /\ \A j \in 1..(k - 1) : ~OccursAt(s, j, w)
         IN SubSeq(s, 1, p - 1) \o Suffix(s, p + Len(w))
    ELSE s

RECURSIVE SplitOnSpaces(_, _, _)
\* s.split(/\s{2,}/) scanning from index k, part being the piece so far
SplitOnSpaces(s, k, part) ==
  IF k > Len(s) THEN <<part>>
  ELSE IF IsWS(s[k]) /\ IsWS(CharAt(s, k + 1))
    THEN <<part>> \o SplitOnSpaces(s, RunEnd(s, k, WhiteSpace) + 1, <<>>)
    ELSE SplitOnSpaces(s, k + 1, part \o <<s[k]>>)

RECURSIVE Join(_)
\* parts.join(' ')
Join(parts) ==
  IF parts = <<>> THEN <<>>
  ELSE IF Len(parts) = 1 THEN parts[1]
  ELSE parts[1] \o <<" ">> \o Join(Tail(parts))

\* lines 118-120 and 165-167: <<keterangan, detailTransaksi>>
SplitDescription(description) ==
  LET descParts == SplitOnSpaces(description, 1, <<>>)
      keterangan == descParts[1]
      joined == Join(Tail(descParts))
  IN <<keterangan,
       IF joined # <<>> THEN joined
       ELSE trim(Suffix(description, Len(keterangan) + 1))>>

\* lines 63-129
parseFixedWidthLine(line) ==
  IF trim(line) = <<>> THEN <<>>
  ELSE LET e == DateFragmentEnd(line, 1)
       IN IF e = 0 THEN <<Str(<<>>), Str(trim(line)), Str(<<>>), Str(<<>>), Str(<<>>)>>
          ELSE LET restOfLine == trim(Suffix(line, e + 1))
                   numbers == NumberTokens(restOfLine, 1)
                   n == Len(numbers)
                   mutasi == IF n >= 2 THEN numbers[n - 1] ELSE <<>>
                   saldo == IF n >= 1 THEN numbers[n] ELSE <<>>
                   description == trim(RemoveFirst(trim(RemoveFirst(restOfLine, mutasi)), saldo))
                   parts == SplitDescription(description)
               IN <<Str(SubSeq(line, 1, e)), Str(parts[1]),
                    Str(IF parts[2] # <<>> THEN parts[2] ELSE description),
                    Str(mutasi), Str(saldo)>>

\* s[j..] matches \s+N\s+N$ with N = [\d.,\-]+(?:\s*(?:DB|CR))?; the value is
\* <<>> when it does not, else <<start of N1, end of N1, start of N2>>
TailMatch(s, j) ==
  LET a == RunEnd(s, j, WhiteSpace) + 1
      e1 == NumberTokenEnd(s, a)
      b == RunEnd(s, e1 + 1, WhiteSpace) + 1
      e2 == NumberTokenEnd(s, b)
  IN IF a > j /\ e1 >= a /\ b > e1 + 1 /\ e2 >= b /\ e2 = Len(s)
       THEN <<a, e1, b>>
       ELSE <<>>

\* the ends of the date token ^\d{1,2}[\/\-]\d{1,2}(?:\s+\d{1,2}[\/\-]\d{1,2})?
\* that white space follows, in the order the regex tries them: with the
\* second fragment first
DateTokenEnds(s) ==
  LET e1 == DateFragmentEnd(s, 1)
      g == RunEnd(s, e1 + 1, WhiteSpace) + 1
      e2 == DateFragmentEnd(s, g)
  IN IF e1 = 0 \/ ~IsWS(CharAt(s, e1 + 1)) THEN <<>>
     ELSE (IF e2 # 0 /\ IsWS(CharAt(s, e2 + 1)) THEN <<e2>> ELSE <<>>) \o <<e1>>

RECURSIVE DescriptionEnd(_, _)
\* the end of the shortest description (.+?) that ends at index d or later
\* and is followed by \s+N\s+N$; 0 when there is none
DescriptionEnd(s, d) ==
  IF d >= Len(s) \/ s[d] \in {"\n", "\r"} THEN 0
  ELSE IF IsWS(s[d + 1]) /\ TailMatch(s, d + 1) # <<>> THEN d
  ELSE DescriptionEnd(s, d + 1)

RECURSIVE SpacesEnd(_, _, _)
\* the end of the longest \s+ after the date token ending at e that ends at
\* index w or earlier and leaves a description to match; 0 when there is none
SpacesEnd(s, e, w) ==
  IF w <= e THEN 0
  ELSE IF DescriptionEnd(s, w + 1) # 0 THEN w
  ELSE SpacesEnd(s, e, w - 1)

\* the four groups of a match: the date token ends at e, the \s+ after it at
\* w, the description at d, and t is the TailMatch after the description
Groups(s, e, w, d, t) ==
  <<SubSeq(s, 1, e), SubSeq(s, w + 1, d), SubSeq(s, t[1], t[2]), Suffix(s, t[3])>>

MatchWithDescription(s, e, w, d) == Groups(s, e, w, d, TailMatch(s, d + 1))

MatchWithSpaces(s, e, w) ==
  IF w = 0 THEN <<>> ELSE MatchWithDescription(s, e, w, DescriptionEnd(s, w + 1))

\* the match of the rest of transactionPattern after a date token ending at
\* e: the leading \s+ as long as it can be, the description as short as it
\* can be; <<>> when there is none
MatchAfterDate(s, e) ==
  MatchWithSpaces(s, e, SpacesEnd(s, e, RunEnd(s, e + 1, WhiteSpace)))

\* match when there is one, else other
OrElse(match, other) == IF match # <<>> THEN match ELSE other

RECURSIVE FirstMatch(_, _, _)
\* the match for the first of the date tokens ends[k..] that has one
FirstMatch(s, ends, k) ==
  IF k > Len(ends) THEN <<>>
  ELSE OrElse(MatchAfterDate(s, ends[k]), FirstMatch(s, ends, k + 1))

\* trimmed.match(transactionPattern): <<>> or <<date, description, mutasi,
\* saldo>>
TransactionMatch(s) == FirstMatch(s, DateTokenEnds(s), 1)

\* /^\d+$/.test(s)
IsAllDigits(s) == s # <<>> /\ \A k \in 1..Len(s) : IsDigit(s[k])

\* lines 162-169: the row of a match, parts being the split description
MatchedRow(match, parts) ==
  <<Str(trim(match[1])), Str(parts[1]), Str(parts[2]),
    Str(trim(match[3])), Str(trim(match[4]))>>

\* a variant of RowIfParsed that wants 3 cells with text in them
RowIfParsed_NonEmpty(parsed) ==
  IF Len(SelectSeq(parsed, LAMBDA cell : cell.v # <<>>)) >= 3 THEN <<parsed>> ELSE <<>>

\* lines 173-175: parsed.length >= 3
RowIfParsed(parsed) == IF Len(parsed) >= 3 THEN <<parsed>> ELSE <<>>

\* lines 157-182, match being trimmed.match(transactionPattern)
RegexLineRowsOf(trimmed, match) ==
  IF match # <<>> THEN <<MatchedRow(match, SplitDescription(match[2]))>>
  ELSE IF DateFragmentEnd(trimmed, 1) # 0 THEN RowIfParsed(parseFixedWidthLine(trimmed))
  ELSE IF Len(trimmed) > 10 /\ ~IsAllDigits(trimmed)
    THEN <<<<Str(<<>>), Str(<<>>), Str(trimmed), Str(<<>>), Str(<<>>)>>>>
  ELSE <<>>

\* lines 155-182: the rows (none or one) a line inside the table contributes
RegexLineRows(trimmed) == RegexLineRowsOf(trimmed, TransactionMatch(trimmed))

\* line 145: the header test of the regex strategy
IsRegexHeader(trimmed) == includes(toUpperCase(trimmed), Chars("TANGGAL"))

RECURSIVE RegexRowsFrom(_, _, _)
\* lines 141-183: the loop over the lines from index k
RegexRowsFrom(lines, k, inTable) ==
  IF k > Len(lines) THEN <<>>
  ELSE LET trimmed == trim(lines[k])
       IN IF ~inTable /\ IsRegexHeader(trimmed) THEN RegexRowsFrom(lines, k + 1, TRUE)
          ELSE IF ~inTable THEN RegexRowsFrom(lines, k + 1, FALSE)
          ELSE RegexLineRows(trimmed) \o RegexRowsFrom(lines, k + 1, TRUE)

parseTableWithRegex(lines) == RegexRowsFrom(lines, 1, FALSE)

\* line 20: the header test of the positional strategy
IsPositionalHeader(line) ==
  /\ includes(toUpperCase(line), Chars("TANGGAL"))
  /\ includes(toUpperCase(line), Chars("KETERANGAN"))

\* lines 32-35: the line looks like a page break or a summary
LooksLikeSummary(line) ==
  \/ includes(toUpperCase(line), Chars("SALDO AWAL"))
  \/ includes(toUpperCase(line), Chars("SALDO AKHIR"))
  \/ includes(toUpperCase(line), Chars("TOTAL"))
  \/ /\ Len(line) > 0
     /\ \A k \in 1..Len(line) : ~IsDigit(line[k])
     /\ ~includes(line, <<"/">>)

\* a variant that skips every line that looks like a summary, valid or not
PositionalLineRows_SkipSummary(line) ==
  IF LooksLikeSummary(line) THEN <<>>
  ELSE IF Len(parseFixedWidthLine(line)) > 0 THEN <<parseFixedWidthLine(line)>>
  ELSE <<>>

\* lines 31-53: the rows (none or one) a line inside the table contributes
PositionalLineRows(line) ==
  IF LooksLikeSummary(line) /\ ~isValidTransactionRow(parseFixedWidthLine(line))
    THEN <<>>
    ELSE LET parsedRow == parseFixedWidthLine(line)
         IN IF Len(parsedRow) > 0 THEN <<parsedRow>> ELSE <<>>

RECURSIVE PositionalRowsFrom(_, _, _)
\* lines 16-54: the loop over the lines from index k
PositionalRowsFrom(lines, k, inTable) ==
  IF k > Len(lines) THEN <<>>
  ELSE LET line == trim(lines[k])
       IN IF ~inTable /\ IsPositionalHeader(line)
            THEN PositionalRowsFrom(lines, k + 1, TRUE)
          ELSE IF ~inTable THEN PositionalRowsFrom(lines, k + 1, FALSE)
          ELSE PositionalLineRows(line) \o PositionalRowsFrom(lines, k + 1, TRUE)

parseTableFromText(lines) == PositionalRowsFrom(lines, 1, FALSE)

\* line 196: !text || text.trim().length === 0
IsBlankText(lines) == \A k \in 1..Len(lines) : trim(lines[k]) = <<>>

(***************************************************************************)
(* The upload request: POST of src/app/api/upload/route.ts, with            *)
(* extractTablesFromPdf of src/lib/pdfParser.ts and applyCategoriesToData   *)
(* of the category mapper.  The PDF library is outside the program: its     *)
(* result is an input, either a failure or the text as a sequence of lines. *)
(***************************************************************************)
\* a variant that appends the new category to the one a record already has
applyCategoriesToData_Append(data, categoryConfig) ==
  [k \in 1..Len(data) |->
     [data[k] EXCEPT !.CATEGORY =
        Str((IF @ = NoValue THEN <<>> ELSE @.v \o <<",">>)
              \o mapCategory(Str(data[k].DETAIL_TRANSAKSI), categoryConfig))]]

\* a variant that also writes the normalised description back to the record
applyCategoriesToData_Normalises(data, categoryConfig) ==
  [k \in 1..Len(data) |->
     [data[k] EXCEPT
        !.DETAIL_TRANSAKSI = trim(toLowerCase(@)),
        !.CATEGORY =
          Str(mapCategory(Str(data[k].DETAIL_TRANSAKSI), categoryConfig))]]

\* lines 53-67 of the mapper: CATEGORY of every record is overwritten
applyCategoriesToData(data, categoryConfig) ==
  [k \in 1..Len(data) |->
     [data[k] EXCEPT !.CATEGORY =
        Str(mapCategory(Str(data[k].DETAIL_TRANSAKSI), categoryConfig))]]

EXPECTED_COLUMNS ==
  <<Chars("TANGGAL"), Chars("KETERANGAN"), Chars("DETAIL TRANSAKSI"),
    Chars("MUTASI"), Chars("SALDO")>>

\* a variant that hands out the module's array itself
getExpectedColumns_Shared(shared) == [alias |-> TRUE, v |-> shared]

\* pdfParser lines 223-225: a copy of the module's array, [...EXPECTED_COLUMNS]
getExpectedColumns(shared) == [alias |-> FALSE, v |-> shared]

RECURSIVE indexOf(_, _, _)
\* the position of item in list from index k on, 0 when it is not there
indexOf(list, item, k) ==
  IF k > Len(list) THEN 0
  ELSE IF list[k] = item THEN k
  ELSE indexOf(list, item, k + 1)

\* a variant that always adds CATEGORY as the last column
InsertCategory_AtEnd(columns) == Append(columns, Chars("CATEGORY"))

\* upload route lines 65-70: CATEGORY goes in after DETAIL TRANSAKSI
InsertCategory(columns) ==
  IF indexOf(columns, Chars("DETAIL TRANSAKSI"), 1) >= 1
    THEN SubSeq(columns, 1, indexOf(columns, Chars("DETAIL TRANSAKSI"), 1))
           \o <<Chars("CATEGORY")>>
           \o Suffix(columns, indexOf(columns, Chars("DETAIL TRANSAKSI"), 1) + 1)
    ELSE Append(columns, Chars("CATEGORY"))

\* upload route lines 63-71: 'CATEGORY' in cleanedData[0]
ResponseColumns(cleanedData, columns) ==
  IF Len(cleanedData) > 0 /\ cleanedData[1].CATEGORY # NoValue
    THEN InsertCategory(columns)
    ELSE columns

RECURSIVE ScanThrows(_, _, _)
\* mapper lines 27-42 on parsed JSON: reading catDict.category of an entry
\* that is null throws, unless an earlier rule has matched
ScanThrows(categoryConfig, k, descriptionLower) ==
  IF k > Len(categoryConfig) THEN FALSE
  ELSE IF categoryConfig[k] = Null THEN TRUE
  ELSE IF /\ CategoryName(categoryConfig[k]) # <<>>
          /\ AnyKeywordMatches(Keywords(categoryConfig[k]), 1, descriptionLower)
    THEN FALSE
  ELSE ScanThrows(categoryConfig, k + 1, descriptionLower)

\* mapCategory throws: the description is not blank and the scan throws
mapCategoryThrows(description, categoryConfig) ==
  /\ Truthy(description)
  /\ trim(toLowerCase(String(description))) # <<>>
  /\ ScanThrows(categoryConfig, 1, trim(toLowerCase(String(description))))

RECURSIVE FirstThrow(_, _, _)
\* the first record from index k on at which mapCategory throws, or Len + 1
FirstThrow(data, categoryConfig, k) ==
  IF k > Len(data) THEN k
  ELSE IF mapCategoryThrows(Str(data[k].DETAIL_TRANSAKSI), categoryConfig) THEN k
  ELSE FirstThrow(data, categoryConfig, k + 1)

\* the records up to index stop - 1 are classified, the others left alone
ApplyBefore(data, categoryConfig, stop) ==
  applyCategoriesToData(SubSeq(data, 1, stop - 1), categoryConfig)
    \o SubSeq(data, stop, Len(data))

\* upload route lines 53-60: applyCategoriesToData updates the records in
\* place until it throws, and the route catches what it throws
ApplyCaught(data, categoryConfig) ==
  ApplyBefore(data, categoryConfig, FirstThrow(data, categoryConfig, 1))

PreviewLimit == 100

ErrorResponse(status, message) ==
  [status |-> status, error |-> message, columns |-> <<>>, total_rows |-> 0,
   full_data |-> <<>>, preview |-> <<>>]

OkResponse(cleanedData, columns) ==
  [status |-> 200, error |-> "", columns |-> columns,
   total_rows |-> Len(cleanedData), full_data |-> cleanedData,
   preview |-> SubSeq(cleanedData, 1,
                      IF Len(cleanedData) < PreviewLimit THEN Len(cleanedData)
                      ELSE PreviewLimit)]

LineHeader == Chars("TANGGAL KETERANGAN CBG MUTASI SALDO")

LineCetak == Chars("Tanggal cetak 31/03")

LineTransfer == Chars("01/03 TRANSFER   PAYMENT XYZ   100.000,00   5.000.000,00")

LineTarik == Chars(" 02/03 TARIK TUNAI 50,00 DB 950,00")

LineContinuation == Chars("INDOMARET JAKARTA")

LineDash == Chars("05-03 BIAYA ADM")

LineSaldoAwal == Chars("SALDO AWAL 1.000,00")

LineBareDate == Chars("06/03")

LineShort == Chars("ATM")

LineBlank == Chars("  ")

LineTotal == Chars("Total 5")

SampleLines ==
  {LineHeader, LineCetak, LineTransfer, LineTarik, LineContinuation, LineDash,
   LineSaldoAwal, LineBareDate, LineShort, LineBlank, LineTotal}

SampleTexts == SeqsUpTo(SampleLines, MaxLines)

Json(rules) == [t |-> "json", v |-> rules]

BadJson == [t |-> "badjson", v |-> <<>>]

SampleCategories ==
  {Null, BadJson, Json(<<>>), Json(<<Rule(T("Transfer"), Array(<<T("payment")>>))>>),
   Json(<<Null, Rule(T("Transfer"), Array(<<T("payment")>>))>>)}

\* the file field of the form: absent, or the name of the file
SampleFiles == {Null, T("statement.txt"), T("statement.pdf"), T("BCA.PDF")}

\* readable is whether pdf-parse succeeds on the file; text is data.text
UploadRequests ==
  {[file |-> f, readable |-> FALSE, text |-> <<>>] : f \in SampleFiles}
    \cup {[file |-> T("statement.pdf"), readable |-> TRUE, text |-> t] :
            t \in SampleTexts}

InitUpload ==
  /\ pc = "POST"
  /\ args \in UploadRequests
  /\ locals = [rows |-> <<>>, rawRows |-> <<>>, cleanedData |-> <<>>,
               categoriesJson |-> NoValue, EXPECTED_COLUMNS |-> EXPECTED_COLUMNS]
  /\ ret = NoValue

\* upload route lines 13-25
CheckFile ==
  /\ pc = "POST"
  /\ IF ~Truthy(args.file)
       THEN pc' = "done" /\ ret' = ErrorResponse(400, "No file provided")
     ELSE IF ~endsWith(toLowerCase(args.file.v), Chars(".pdf"))
       THEN pc' = "done" /\ ret' = ErrorResponse(400, "File must be a PDF")
     ELSE pc' = "extractTablesFromPdf" /\ ret' = ret
  /\ UNCHANGED <<args, locals>>

\* pdfParser lines 193-198, and the catch of upload route lines 93-99
ExtractText ==
  /\ pc = "extractTablesFromPdf"
  /\ IF ~args.readable
       THEN /\ pc' = "done"
            /\ ret' = ErrorResponse(500, "Error processing PDF: Error reading PDF: (pdf-parse)")
     ELSE IF IsBlankText(args.text)
       THEN /\ pc' = "done"
            /\ ret' = ErrorResponse(500,
                  "Error processing PDF: Error reading PDF: PDF contains no extractable text")
     ELSE pc' = "parseTableWithRegex" /\ ret' = ret
  /\ UNCHANGED <<args, locals>>

\* a variant that runs the positional strategy whatever the regex strategy gave
ParseWithRegex_ThenPositional ==
  /\ pc = "parseTableWithRegex"
  /\ locals' = [locals EXCEPT !.rows = parseTableWithRegex(args.text)]
  /\ pc' = "parseTableFromText"
  /\ UNCHANGED <<args, ret>>

\* pdfParser lines 200-204
ParseWithRegex ==
  /\ pc = "parseTableWithRegex"
  /\ locals' = [locals EXCEPT !.rows = parseTableWithRegex(args.text)]
  /\ pc' = IF locals'.rows = <<>> THEN "parseTableFromText" ELSE "mergeTransactionLines"
  /\ UNCHANGED <<args, ret>>

\* pdfParser lines 204-206
ParseFromText ==
  /\ pc = "parseTableFromText"
  /\ locals' = [locals EXCEPT !.rows = parseTableFromText(args.text)]
  /\ pc' = "mergeTransactionLines"
  /\ UNCHANGED <<args, ret>>

\* pdfParser lines 208-214 and upload route lines 32-39
ValidateAndMerge ==
  /\ pc = "mergeTransactionLines"
  /\ locals' = [locals EXCEPT !.rawRows = mergeTransactionLines(FilterValid(locals.rows))]
  /\ IF locals'.rawRows = <<>>
       THEN /\ pc' = "done"
            /\ ret' = ErrorResponse(400,
                  "No transaction tables found in the PDF. Please verify the file format.")
       ELSE pc' = "cleanTransactionData" /\ ret' = ret
  /\ UNCHANGED args

\* upload route lines 41-49
CleanData ==
  /\ pc = "cleanTransactionData"
  /\ locals' = [locals EXCEPT !.cleanedData = cleanTransactionData(locals.rawRows)]
  /\ IF locals'.cleanedData = <<>>
       THEN /\ pc' = "done"
            /\ ret' = ErrorResponse(400,
                  "No valid transaction data found after cleaning. Please verify the PDF format.")
       ELSE pc' = "applyCategoriesToData" /\ ret' = ret
  /\ UNCHANGED args

\* the response of upload route lines 62-92 for the records as they are
\* after the categories step; the columns array is spliced in place
RespondWith(categoriesJson, cleanedData, columns) ==
  /\ locals' = [locals EXCEPT
                  !.categoriesJson = categoriesJson,
                  !.cleanedData = cleanedData,
                  !.EXPECTED_COLUMNS =
                     IF columns.alias THEN ResponseColumns(cleanedData, columns.v)
                                      ELSE @]
  /\ ret' = OkResponse(cleanedData, ResponseColumns(cleanedData, columns.v))

\* upload route lines 51-92; the 'categories' field of the form (line 11) is
\* not used before line 53, and is drawn here
Respond ==
  /\ pc = "applyCategoriesToData"
  /\ \E categoriesJson \in SampleCategories :
       RespondWith(categoriesJson,
                   IF categoriesJson.t = "json"
                     THEN ApplyCaught(locals.cleanedData, categoriesJson.v)
                     ELSE locals.cleanedData,
                   getExpectedColumns(locals.EXPECTED_COLUMNS))
  /\ pc' = "done"
  /\ UNCHANGED args

NextUpload ==
  \/ CheckFile
  \/ ExtractText
  \/ ParseWithRegex
  \/ ParseFromText
  \/ ValidateAndMerge
  \/ CleanData
  \/ Respond

SpecUpload == InitUpload /\ [][NextUpload]_vars

\* the request whose text is the header line and the transfer line of C2
C2_Request ==
  /\ args.file = T("statement.pdf")
  /\ args.readable
  /\ args.text = <<LineHeader, LineTransfer>>

\* C2: a header line followed by "01/03 TRANSFER   PAYMENT XYZ   100.000,00
\* 5.000.000,00" yields exactly one record, with date "01/03", amount
\* 100000.0 and balance 5000000.0.
C2_EndToEnd ==
  pc = "done" /\ C2_Request =>
    /\ ret.status = 200
    /\ Len(ret.full_data) = 1
    /\ ret.full_data[1].TANGGAL = Chars("01/03")
    /\ ret.full_data[1].MUTASI = Num(FALSE, Chars("100000"), <<>>)
    /\ ret.full_data[1].SALDO = Num(FALSE, Chars("5000000"), <<>>)

\* what the code does return for the request of C2
C2_Observed ==
  pc = "done" /\ C2_Request =>
    /\ ret.status = 200
    /\ Len(ret.full_data) = 1
    /\ ret.full_data[1].TANGGAL = Chars("01/03")
    /\ ret.full_data[1].KETERANGAN = Chars("TRANSFER")
    /\ ret.full_data[1].DETAIL_TRANSAKSI = Chars("PAYMENT XYZ")
    /\ ret.full_data[1].MUTASI = Num(FALSE, Chars("100"), <<>>)
    /\ ret.full_data[1].SALDO = Num(FALSE, Chars("5"), <<>>)

(***************************************************************************)
(* Specification of applyCategoriesToData: the records are classified at    *)
(* upload (upload route line 56) and again, with the same rules, at         *)
(* download (download route line 30).  locals.data is the array the         *)
(* function updates in place; locals.once keeps what the first call left.   *)
(***************************************************************************)
TransactionRecord(detail, category) ==
  [TANGGAL |-> Chars("01/03"), KETERANGAN |-> Chars("TRANSFER"),
   DETAIL_TRANSAKSI |-> detail, MUTASI |-> Num(FALSE, <<"5">>, <<>>),
   SALDO |-> Null, CATEGORY |-> category]

SampleRecords ==
  {TransactionRecord(Chars("PAYMENT INDOMARET JKT"), NoValue),
   TransactionRecord(Chars("abc"), T("Old")),
   TransactionRecord(<<>>, NoValue),
   TransactionRecord(Chars("Grocery"), T("Uncategorized"))}

ApplyRules ==
  {Rule(T("Grocery"), Array(<<T("indomaret")>>)),
   Rule(T("Y"), Array(<<T("a"), T("grocery")>>)),
   Rule(T("X"), Array(<<T(" ")>>))}

InitApply ==
  /\ pc = "applyCategoriesToData"
  /\ args \in {[data |-> d, categoryConfig |-> c] :
                 d \in SeqsUpTo(SampleRecords, MaxRows),
                 c \in SeqsUpTo(ApplyRules, MaxRules)}
  /\ locals = [data |-> args.data, once |-> <<>>]
  /\ ret = NoValue

\* upload route line 56: the first classification
ApplyCategories ==
  /\ pc = "applyCategoriesToData"
  /\ locals' = [data |-> applyCategoriesToData(locals.data, args.categoryConfig),
                once |-> applyCategoriesToData(locals.data, args.categoryConfig)]
  /\ pc' = "applied"
  /\ UNCHANGED <<args, ret>>

\* download route line 30: the classified records are classified again
ReapplyCategories ==
  /\ pc = "applied"
  /\ locals' = [locals EXCEPT
                  !.data = applyCategoriesToData(locals.data, args.categoryConfig)]
  /\ pc' = "reapplied"
  /\ UNCHANGED <<args, ret>>

NextApply == ApplyCategories \/ ReapplyCategories

SpecApply == InitApply /\ [][NextApply]_vars

\* C11: applyCategoriesToData is idempotent: after a second application
\* with the same rules every record is what the first application left, its
\* CATEGORY being the one name mapCategory gives (overwritten, not appended).
C11_Idempotent ==
  pc = "reapplied" =>
    /\ locals.data = locals.once
    /\ \A k \in 1..Len(locals.data) :
         /\ locals.data[k].CATEGORY.t = "string"
         /\ \/ locals.data[k].CATEGORY.v = Uncategorized
            \/ \E j \in 1..Len(args.categoryConfig) :
                 locals.data[k].CATEGORY.v = ClaimRuleName(args.categoryConfig[j])
         /\ [locals.data[k] EXCEPT !.CATEGORY = args.data[k].CATEGORY] = args.data[k]

C11_Witness ==
  /\ pc = "reapplied"
  /\ Len(locals.data) = 2
  /\ args.data[2].CATEGORY = T("Old")
  /\ locals.data[1].CATEGORY = T("Grocery")
  /\ locals.data[2].CATEGORY = T("Y")

\* C12: the rows handed to validation and merging are the regex strategy's
\* rows when it emits at least one row, and the positional strategy's rows
\* otherwise; the two are never combined.
C12_RegexPreferred ==
  pc = "mergeTransactionLines" =>
    /\ parseTableWithRegex(args.text) # <<>>
         => locals.rows = parseTableWithRegex(args.text)
    /\ parseTableWithRegex(args.text) = <<>>
         => locals.rows = parseTableFromText(args.text)

\* the fallback has run: the regex strategy gave nothing for the short line
C12_Witness ==
  /\ pc = "mergeTransactionLines"
  /\ args.text = <<LineHeader, LineShort>>
  /\ parseTableWithRegex(args.text) = <<>>
  /\ locals.rows = <<<<T(""), T("ATM"), T(""), T(""), T("")>>>>

\* the request reached the parser: a PDF file whose text is not blank
ClaimReadableText ==
  /\ Truthy(args.file)
  /\ endsWith(toLowerCase(args.file.v), Chars(".pdf"))
  /\ args.readable
  /\ ~IsBlankText(args.text)

\* a header line: it contains both the TANGGAL and the KETERANGAN marker
ClaimHeaderLine(line) ==
  /\ includes(toUpperCase(line), Chars("TANGGAL"))
  /\ includes(toUpperCase(line), Chars("KETERANGAN"))

ClaimNoTablesFound ==
  ErrorResponse(400, "No transaction tables found in the PDF. Please verify the file format.")

\* C13: when the extracted text is not empty but holds no header line, the
\* extraction gives no rows and the request ends in the 'no transaction
\* tables found' error, no record being returned.
C13_NoHeaderNoTable ==
  /\ pc \in {"parseTableFromText", "mergeTransactionLines"}
       /\ (\A k \in 1..Len(args.text) : ~ClaimHeaderLine(args.text[k]))
       => locals.rows = <<>>
  /\ pc = "done" /\ ClaimReadableText
       /\ (\A k \in 1..Len(args.text) : ~ClaimHeaderLine(args.text[k]))
       => ret = ClaimNoTablesFound

\* what the code does: the error is certain only when no line holds TANGGAL
C13_Observed ==
  /\ pc = "mergeTransactionLines"
       /\ (\A k \in 1..Len(args.text) :
             ~includes(toUpperCase(args.text[k]), Chars("TANGGAL")))
       => locals.rows = <<>>
  /\ pc = "done" /\ ClaimReadableText
       /\ (\A k \in 1..Len(args.text) :
             ~includes(toUpperCase(args.text[k]), Chars("TANGGAL")))
       => ret = ClaimNoTablesFound

\* the print-date line opened the table of the regex strategy
C13_ObservedWitness ==
  /\ pc = "done"
  /\ args.text = <<LineCetak, LineTransfer>>
  /\ ret.status = 200
  /\ Len(ret.full_data) = 1

ClaimNoValidData ==
  ErrorResponse(400,
    "No valid transaction data found after cleaning. Please verify the PDF format.")

\* a header line was found, and no row is left after validation, merging
\* and cleaning (locals.rawRows holds the validated and merged rows)
C14_TableWithoutRows ==
  /\ pc = "done"
  /\ ClaimReadableText
  /\ \E k \in 1..Len(args.text) : ClaimHeaderLine(args.text[k])
  /\ cleanTransactionData(locals.rawRows) = <<>>

\* C14: when a header line is found but no row survives validation, merging
\* and cleaning, the request ends in the 'no valid transaction data after
\* cleaning' error, which is not the 'no transaction tables found' error.
C14_NoValidDataError ==
  /\ ClaimNoValidData # ClaimNoTablesFound
  /\ C14_TableWithoutRows => ret = ClaimNoValidData

\* what the code does: such a request gets the 'no transaction tables found'
\* error, and no request gets the other one
C14_Observed ==
  /\ C14_TableWithoutRows => ret = ClaimNoTablesFound
  /\ ret # ClaimNoValidData

\* a header and a continuation line: the row is valid, the merger drops it
C14_ObservedWitness ==
  /\ C14_TableWithoutRows
  /\ args.text = <<LineHeader, LineContinuation>>
  /\ FilterValid(locals.rows) # <<>>
  /\ ret = ClaimNoTablesFound

ClaimColumns ==
  <<Chars("TANGGAL"), Chars("KETERANGAN"), Chars("DETAIL TRANSAKSI"),
    Chars("MUTASI"), Chars("SALDO")>>

ClaimColumnsWithCategory ==
  <<Chars("TANGGAL"), Chars("KETERANGAN"), Chars("DETAIL TRANSAKSI"),
    Chars("CATEGORY"), Chars("MUTASI"), Chars("SALDO")>>

\* C15: the column list returned with the records is TANGGAL, KETERANGAN,
\* DETAIL TRANSAKSI, MUTASI, SALDO when no record carries a category, and has
\* CATEGORY right after DETAIL TRANSAKSI when any record carries one; the
\* module's EXPECTED_COLUMNS is never altered by a request.
C15_ColumnList ==
  /\ locals.EXPECTED_COLUMNS = ClaimColumns
  /\ pc = "done" /\ ret.status = 200 =>
       /\ (\A k \in 1..Len(ret.full_data) : ret.full_data[k].CATEGORY = NoValue)
            => ret.columns = ClaimColumns
       /\ (\E k \in 1..Len(ret.full_data) : ret.full_data[k].CATEGORY # NoValue)
            => ret.columns = ClaimColumnsWithCategory

\* the classification stopped after the first of two records: one record
\* carries a category, the other does not
C15_Witness ==
  /\ pc = "done"
  /\ ret.status = 200
  /\ Len(ret.full_data) = 2
  /\ ret.full_data[1].CATEGORY = T("Uncategorized")
  /\ ret.full_data[2].CATEGORY = NoValue
  /\ ret.columns = ClaimColumnsWithCategory

\* the records of a text: the rows of the strategy that applies, validated,
\* merged and cleaned
ClaimRecords(text) ==
  cleanTransactionData(mergeTransactionLines(FilterValid(
    IF parseTableWithRegex(text) # <<>> THEN parseTableWithRegex(text)
    ELSE parseTableFromText(text))))

\* the text without its line k
ClaimWithoutLine(text, k) == SubSeq(text, 1, k - 1) \o SubSeq(text, k + 1, Len(text))

\* the records of the response, their categories left aside
ClaimReturnedRecords ==
  [k \in 1..Len(ret.full_data) |-> [ret.full_data[k] EXCEPT !.CATEGORY = NoValue]]

\* C16: a header line that comes again after the table has started
\* contributes nothing: the records returned are those of the text without
\* that line (no record of its own, nothing added to the descriptions of the
\* transaction before it).
C16_RepeatedHeaderIgnored ==
  pc = "done" /\ ClaimReadableText =>
    \A k \in 2..Len(args.text) :
      /\ ClaimHeaderLine(args.text[k])
      /\ \E j \in 1..(k - 1) : ClaimHeaderLine(args.text[j])
      => ClaimReturnedRecords = ClaimRecords(ClaimWithoutLine(args.text, k))

\* what the code does with a header line after a transaction: the regex
\* strategy makes it a continuation row, and the merger appends it
C16_Observed ==
  pc = "done" /\ ClaimReadableText /\ args.text = <<LineHeader, LineTransfer, LineHeader>> =>
    /\ ret.status = 200
    /\ Len(ret.full_data) = 1
    /\ ret.full_data[1].KETERANGAN = Chars("TRANSFER")
    /\ ret.full_data[1].DETAIL_TRANSAKSI =
         Chars("PAYMENT XYZ TANGGAL KETERANGAN CBG MUTASI SALDO")

C16_ObservedWitness ==
  /\ pc = "done"
  /\ args.text = <<LineHeader, LineTransfer, LineHeader>>
  /\ ret.status = 200

(***************************************************************************)
(* The categories in the browser: the hook useCategories                   *)
(* (src/hooks/useCategories.ts), which the page Home (src/app/layout.tsx)   *)
(* and the component CategoryModal (src/components/CategoryModal.tsx) each  *)
(* call, so that each has a React state of its own, and the localStorage    *)
(* entry 'transaction_categories' they both read when they mount.           *)
(*   args   : what localStorage holds when the browser opens the page       *)
(*   locals : storage, the entry now; page and modal, the categories state  *)
(*            of Home's and of CategoryModal's hook; pageLoaded and         *)
(*            modalLoaded, whether the hook's effect has run; edits, the    *)
(*            number of calls made in the modal; sent, the 'categories'     *)
(*            field of the last upload                                      *)
(*   ret    : what the last call of the hook returned, as the tag t         *)
(***************************************************************************)
\* src/lib/categoryStore.ts lines 6-84
STARTER_CATEGORIES ==
  <<Rule(T("Grocery"), Array(<<T("indomaret"), T("idm indoma"), T("alfamart"),
          T("aqshamart")>>)),
    Rule(T("Makan"), Array(<<T("warung"), T("warteg"), T("nasi uduk"), T("bubur ayam"),
          T("bakso"), T("sop ayam"), T("ayam bakar"),
          T("jos chicke"), T("kopi"), T("es oyen"), T("roti"),
          T("gehu"), T("sabana"), T("just nona"), T("dapur nuda"),
          T("kebab"), T("tomoro"), T("warung k"), T("warung mad"),
          T("aeon store")>>)),
    Rule(T("Shopping"), Array(<<T("shopee"), T("tokopedia")>>)),
    Rule(T("Gopay"), Array(<<T("gopay"), T("topup"), T("gopay topup")>>)),
    Rule(T("ATM"), Array(<<T("tarikan atm"), T("bi-fast"), T("biaya txn"),
          T("bif transfer")>>)),
    Rule(T("Income"), Array(<<T("salary"), T("transfer cr")>>)),
    Rule(T("Gift"), Array(<<T("masjid")>>)),
    Rule(T("Kostan"), Array(<<T("kost")>>))>>

\* categoryStore lines 89-91: a deep copy
getStarterCategories == STARTER_CATEGORIES

RECURSIVE SplitOnComma(_, _, _)
\* keywords.split(',') scanning from index k, part being the piece so far
SplitOnComma(s, k, part) ==
  IF k > Len(s) THEN <<part>>
  ELSE IF s[k] = "," THEN <<part>> \o SplitOnComma(s, k + 1, <<>>)
  ELSE SplitOnComma(s, k + 1, part \o <<s[k]>>)

IsNonEmpty(s) == s # <<>>

TrimEach(parts) == [k \in 1..Len(parts) |-> trim(parts[k])]

\* keywords.split(',').map(k => k.trim()).filter(k => k.length > 0)
CleanedKeywords(keywords) ==
  SelectSeq(TrimEach(SplitOnComma(keywords, 1, <<>>)), IsNonEmpty)

\* the entry { category: name, keywords: [...] }
CategoryEntry(name, keywordList) ==
  Rule(Str(name), Array([k \in 1..Len(keywordList) |-> Str(keywordList[k])]))

\* what a call of the hook leaves: the value it returned ("threw" when it
\* threw), the categories array as it is in memory after the call, and
\* whether saveCategories was called
HookResult(value, categories, saved) ==
  [value |-> value, categories |-> categories, saved |-> saved]

\* a variant of HasName that compares the stored name as it is written
HasName_CaseSensitive(categories, nameLower) ==
  \E k \in 1..Len(categories) : categories[k].category.v = nameLower

\* cat.category.toLowerCase() === nameLower for some entry
HasName(categories, nameLower) ==
  \E k \in 1..Len(categories) : toLowerCase(categories[k].category.v) = nameLower

\* useCategories lines 45-69
addCategory(categories, name, keywords) ==
  IF HasName(categories, toLowerCase(trim(name)))
    THEN HookResult("false", categories, FALSE)
  ELSE IF CleanedKeywords(keywords) = <<>>
    THEN HookResult("threw", categories, FALSE)
  ELSE HookResult("true",
         Append(categories, CategoryEntry(trim(name), CleanedKeywords(keywords))),
         TRUE)

RECURSIVE findIndex(_, _, _)
\* lines 72-74: the first entry from index k on with that name, 0 if none
findIndex(categories, nameLower, k) ==
  IF k > Len(categories) THEN 0
  ELSE IF toLowerCase(categories[k].category.v) = nameLower THEN k
  ELSE findIndex(categories, nameLower, k + 1)

\* lines 104-116 of updateCategory, the name having been assigned at line 98:
\* newCategories is a shallow copy, so the entry that was renamed is the
\* entry of the categories state, saved or not
UpdateKeywords(renamed, categoryIndex, keywords) ==
  IF CleanedKeywords(keywords) = <<>>
    THEN HookResult("threw", renamed, FALSE)
    ELSE HookResult("true",
           [renamed EXCEPT ![categoryIndex] =
              CategoryEntry(@.category.v, CleanedKeywords(keywords))],
           TRUE)

\* lines 82-99 of updateCategory (newName and keywords are the strings of
\* the edit form, never null)
UpdateAt(categories, categoryIndex, newName, keywords) ==
  IF trim(newName) = <<>> THEN HookResult("threw", categories, FALSE)
  ELSE IF \E k \in 1..Len(categories) :
            /\ k # categoryIndex
            /\ toLowerCase(categories[k].category.v) = toLowerCase(trim(newName))
    THEN HookResult("false", categories, FALSE)
  ELSE UpdateKeywords([categories EXCEPT ![categoryIndex].category = Str(trim(newName))],
                      categoryIndex, keywords)

\* useCategories lines 71-116
updateCategory(categories, oldName, newName, keywords) ==
  IF findIndex(categories, toLowerCase(oldName), 1) = 0
    THEN HookResult("false", categories, FALSE)
    ELSE UpdateAt(categories, findIndex(categories, toLowerCase(oldName), 1),
                  newName, keywords)

\* the entry is kept by the filter of lines 119-121
KeptOnDelete(categories, name, k) ==
  toLowerCase(categories[k].category.v) # toLowerCase(name)

RECURSIVE FilterFrom(_, _, _)
FilterFrom(categories, name, k) ==
  IF k > Len(categories) THEN <<>>
  ELSE (IF KeptOnDelete(categories, name, k) THEN <<categories[k]>> ELSE <<>>)
         \o FilterFrom(categories, name, k + 1)

\* useCategories lines 118-129
deleteCategory(categories, name) ==
  IF Len(FilterFrom(categories, name, 1)) = Len(categories)
    THEN HookResult("false", categories, FALSE)
    ELSE HookResult("true", FilterFrom(categories, name, 1), TRUE)

MaxEdits == 2

\* what is typed into the name fields and the keywords fields of the modal
SampleNames == {Chars("Food"), Chars(" food "), Chars("Gift"), Chars(" ")}

SampleKeywords == {Chars("kopi, teh"), Chars(" , ")}

\* the localStorage entry when the page is opened: none, "[]", or one entry
SampleStored ==
  {Null, Json(<<>>), Json(<<CategoryEntry(Chars("Food"), <<Chars("kopi")>>)>>)}

InitCategories ==
  /\ pc = "mounting"
  /\ args \in {[stored |-> st] : st \in SampleStored}
  /\ locals = [storage |-> args.stored, page |-> <<>>, modal |-> <<>>,
               pageLoaded |-> FALSE, modalLoaded |-> FALSE,
               pageFetch |-> FALSE, modalFetch |-> FALSE, edits |-> 0,
               call |-> [op |-> "none", name |-> <<>>], sent |-> NoValue]
  /\ ret = NoValue

\* useCategories lines 15-28: the categories the effect sets
LoadedCategories(storage) ==
  IF storage # Null THEN storage.v ELSE getStarterCategories

\* useCategories line 26: the starter categories are stored
StorageAfterLoad(storage) ==
  IF storage # Null THEN storage ELSE Json(getStarterCategories)

\* both effects of the mount have run
EffectsRan(l) ==
  /\ l.pageLoaded \/ l.pageFetch
  /\ l.modalLoaded \/ l.modalFetch

\* useCategories lines 13-23 in Home (layout.tsx line 39): the effect reads
\* localStorage and either sets the list or starts the fetch
LoadPage ==
  /\ pc = "mounting"
  /\ ~locals.pageLoaded /\ ~locals.pageFetch
  /\ locals' = IF locals.storage # Null
                 THEN [locals EXCEPT !.page = LoadedCategories(locals.storage),
                                     !.pageLoaded = TRUE]
                 ELSE [locals EXCEPT !.pageFetch = TRUE]
  /\ pc' = IF EffectsRan(locals') THEN "idle" ELSE "mounting"
  /\ UNCHANGED <<args, ret>>

\* useCategories lines 13-23 in CategoryModal (CategoryModal.tsx line 13)
LoadModal ==
  /\ pc = "mounting"
  /\ ~locals.modalLoaded /\ ~locals.modalFetch
  /\ locals' = IF locals.storage # Null
                 THEN [locals EXCEPT !.modal = LoadedCategories(locals.storage),
                                     !.modalLoaded = TRUE]
                 ELSE [locals EXCEPT !.modalFetch = TRUE]
  /\ pc' = IF EffectsRan(locals') THEN "idle" ELSE "mounting"
  /\ UNCHANGED <<args, ret>>

\* useCategories lines 23-29 in Home: the response of /api/categories has
\* arrived; the list is set and stored as it is now, whatever was done since
FetchedPage ==
  /\ pc \in {"idle", "uploaded"}
  /\ locals.pageFetch
  /\ locals' = [locals EXCEPT !.page = LoadedCategories(Null),
                              !.storage = StorageAfterLoad(Null),
                              !.pageLoaded = TRUE, !.pageFetch = FALSE]
  /\ UNCHANGED <<pc, args, ret>>

\* useCategories lines 23-29 in CategoryModal
FetchedModal ==
  /\ pc \in {"idle", "uploaded"}
  /\ locals.modalFetch
  /\ locals' = [locals EXCEPT !.modal = LoadedCategories(Null),
                              !.storage = StorageAfterLoad(Null),
                              !.modalLoaded = TRUE, !.modalFetch = FALSE]
  /\ UNCHANGED <<pc, args, ret>>

\* the modal's hook after a call: setCategories and localStorage.setItem of
\* lines 40-43 when the call saved
AfterCall(op, name, result) ==
  /\ locals' = [locals EXCEPT
                  !.modal = result.categories,
                  !.storage = IF result.saved THEN Json(result.categories) ELSE @,
                  !.edits = @ + 1,
                  !.call = [op |-> op, name |-> name]]
  /\ ret' = [t |-> result.value, v |-> <<>>]
  /\ pc' = "idle"
  /\ UNCHANGED args

\* CategoryModal lines 28-46; the form is there while the list is loading
handleAddCategory ==
  /\ pc \in {"idle", "uploaded"}
  /\ locals.edits < MaxEdits
  /\ \E name \in SampleNames, keywords \in SampleKeywords :
       IF trim(name) = <<>> \/ trim(keywords) = <<>>
         THEN AfterCall("alert", name, HookResult("alert", locals.modal, FALSE))
         ELSE AfterCall("addCategory", name,
                        addCategory(locals.modal, name, keywords))

\* CategoryModal lines 54-66, for an entry of the list the modal shows
handleSaveEdit ==
  /\ pc \in {"idle", "uploaded"}
  /\ locals.edits < MaxEdits
  /\ \E k \in 1..Len(locals.modal), editName \in SampleNames,
        editKeywords \in SampleKeywords :
       AfterCall("updateCategory", locals.modal[k].category.v,
                 updateCategory(locals.modal, locals.modal[k].category.v,
                                editName, editKeywords))

\* CategoryModal lines 68-77, the confirmation accepted
handleDelete ==
  /\ pc \in {"idle", "uploaded"}
  /\ locals.edits < MaxEdits
  /\ \E k \in 1..Len(locals.modal) :
       AfterCall("deleteCategory", locals.modal[k].category.v,
                 deleteCategory(locals.modal, locals.modal[k].category.v))

\* layout.tsx lines 46-60: the upload sends JSON.stringify(categories)
handleFileSelect ==
  /\ pc \in {"idle", "uploaded"}
  /\ locals' = [locals EXCEPT !.sent = Json(locals.page)]
  /\ pc' = "uploaded"
  /\ UNCHANGED <<args, ret>>

\* the browser reloads the page: both components mount again, and a
\* response that is still awaited is never handled
ReloadPage ==
  /\ pc \in {"idle", "uploaded"}
  /\ locals' = [locals EXCEPT !.page = <<>>, !.modal = <<>>,
                              !.pageLoaded = FALSE, !.modalLoaded = FALSE,
                              !.pageFetch = FALSE, !.modalFetch = FALSE]
  /\ pc' = "mounting"
  /\ UNCHANGED <<args, ret>>

NextCategories ==
  \/ LoadPage
  \/ LoadModal
  \/ FetchedPage
  \/ FetchedModal
  \/ handleAddCategory
  \/ handleSaveEdit
  \/ handleDelete
  \/ handleFileSelect
  \/ ReloadPage

SpecCategories == InitCategories /\ [][NextCategories]_vars

\* C17: after a category is added, updated or deleted in the modal, the next
\* upload from the page sends the updated list: the categories an upload
\* sends are those the modal holds, and the page's list and the modal's
\* list never differ once both are loaded.
C17_UploadSendsUpdatedList ==
  /\ pc = "uploaded" => locals.sent = Json(locals.modal)
  /\ locals.pageLoaded /\ locals.modalLoaded => locals.page = locals.modal

\* what the code does: the upload sends the page's own list, which is what
\* localStorage held when the page was last loaded, or the empty list of a
\* page whose starter categories had not arrived yet
C17_Observed ==
  /\ pc = "uploaded" =>
       \/ locals.sent = Json(locals.page)
       \/ locals.sent = Json(<<>>) /\ locals.page = getStarterCategories
  /\ locals.edits = 0 /\ locals.pageLoaded /\ locals.modalLoaded
       => locals.page = locals.modal

\* a category was added in the modal and stored, and the upload that
\* followed sent the list without it
C17_ObservedWitness ==
  /\ pc = "uploaded"
  /\ ret.t = "true"
  /\ locals.storage = Json(locals.modal)
  /\ Len(locals.modal) = Len(locals.page) + 1
  /\ locals.sent = Json(locals.page)

\* a dated row a record is built from: 5 cells or more, accepted by the
\* Row Validator, a date fragment in its first cell
ClaimBuildsRecord(row) ==
  /\ Len(row) >= 5
  /\ C8_Decision(row)
  /\ ClaimDateFragment(ClaimText(row[1]))

\* C18: cleanTransactionData preserves order: the output records are, one
\* for one and in the same order, those of the dated rows of the input.
C18_OrderPreserved ==
  pc = "done" =>
    [k \in 1..Len(ret) |-> ret[k].TANGGAL]
      = [k \in 1..Len(SelectSeq(args.rawRows, ClaimBuildsRecord)) |->
           trim(ClaimText(SelectSeq(args.rawRows, ClaimBuildsRecord)[k][1]))]

\* two dated rows with a continuation row between them, the later date first
C18_Witness ==
  /\ pc = "done"
  /\ args.rawRows = <<RowD3, RowK1, RowD1>>
  /\ Len(ret) = 2
  /\ ret[1].TANGGAL = Chars("15/06")
  /\ ret[1].DETAIL_TRANSAKSI = Chars("d detail2")
  /\ ret[2].TANGGAL = Chars("01/02")

RECURSIVE ClaimFromLine(_, _, _)
\* the text from its first line, at index k or later, that contains every
\* marker of the set; the empty text when there is none
ClaimFromLine(text, markers, k) ==
  IF k > Len(text) THEN <<>>
  ELSE IF \A m \in markers : includes(toUpperCase(text[k]), m) THEN Suffix(text, k)
  ELSE ClaimFromLine(text, markers, k + 1)

\* the text from its first header line (both markers) on
ClaimFromHeader(text) == ClaimFromLine(text, {Chars("TANGGAL"), Chars("KETERANGAN")}, 1)

\* C19: in both strategies no line contributes a row until a header line
\* containing both TANGGAL and KETERANGAN has been seen (a line with TANGGAL
\* alone does not open the table): the rows of each strategy are those it
\* gives for the text from the first header line on.
C19_NoRowBeforeHeader ==
  /\ pc = "parseTableFromText" =>
       locals.rows = parseTableWithRegex(ClaimFromHeader(args.text))
  /\ pc = "mergeTransactionLines" =>
       \/ locals.rows = parseTableWithRegex(ClaimFromHeader(args.text))
       \/ /\ parseTableWithRegex(ClaimFromHeader(args.text)) = <<>>
          /\ locals.rows = parseTableFromText(ClaimFromHeader(args.text))

\* what the code does: the regex strategy opens the table at the first line
\* that contains TANGGAL, the positional strategy at the first header line
C19_Observed ==
  /\ pc = "parseTableFromText" =>
       locals.rows = parseTableWithRegex(ClaimFromLine(args.text, {Chars("TANGGAL")}, 1))
  /\ pc = "mergeTransactionLines" =>
       \/ locals.rows = parseTableWithRegex(ClaimFromLine(args.text, {Chars("TANGGAL")}, 1))
       \/ locals.rows = parseTableFromText(ClaimFromHeader(args.text))

\* the print-date line has opened the table of the regex strategy, and the
\* transaction line before the header has given a row
C19_ObservedWitness ==
  /\ pc = "mergeTransactionLines"
  /\ args.text = <<LineCetak, LineTransfer, LineHeader>>
  /\ Len(locals.rows) = 2
  /\ locals.rows[1][1] = T("01/03")
  /\ locals.rows[2] = <<T(""), T(""), Str(LineHeader), T(""), T("")>>

\* the text contains SALDO AWAL, SALDO AKHIR or TOTAL, whatever the case
ClaimSummaryText(txt) ==
  \E marker \in {Chars("SALDO AWAL"), Chars("SALDO AKHIR"), Chars("TOTAL")} :
    includes(toUpperCase(txt), marker)

\* the line parses as a row the Row Validator accepts
ClaimParsesAsValidRow(line) == C8_Decision(parseFixedWidthLine(trim(line)))

C20_WitnessRegex ==
  /\ pc = "mergeTransactionLines"
  /\ args.text = <<LineHeader, LineTransfer, LineSaldoAwal>>
  /\ Len(locals.rows) = 2
  /\ locals.rows[2] = <<T(""), T(""), T("SALDO AWAL 1.000,00"), T(""), T("")>>

\* no line of the samples that carries a summary marker fails to parse as a
\* valid row: the skip of pdfParser line 38 is never taken for such a line
C20_NeverSkipped ==
  \A k \in 1..Len(args.text) :
    ClaimSummaryText(args.text[k]) => ClaimParsesAsValidRow(args.text[k])

\* the number of cells of the row that are not empty
ClaimNonEmptyCells(row) == Cardinality({c \in 1..Len(row) : ClaimText(row[c]) # <<>>})

\* the line begins with a date fragment and does not match the transaction
\* pattern
ClaimDatedNonMatch(trimmed) ==
  /\ DateFragmentEnd(trimmed, 1) # 0
  /\ TransactionMatch(trimmed) = <<>>

\* the regex strategy gave the rows of the request
ClaimRegexGaveRows ==
  /\ pc = "mergeTransactionLines"
  /\ parseTableWithRegex(args.text) # <<>>
  /\ locals.rows = parseTableWithRegex(args.text)

\* C21: in the regex strategy a line that begins with a date fragment and
\* does not match the transaction pattern is emitted only if its positional
\* splitting has 3 non-empty cells or more; a bare date emits nothing.
C21_DatedFallback ==
  ClaimRegexGaveRows =>
    /\ \A k \in 1..Len(locals.rows) :
         ClaimText(locals.rows[k][1]) # <<>> => ClaimNonEmptyCells(locals.rows[k]) >= 3
    /\ \A k \in 1..Len(args.text) :
         ClaimDatedNonMatch(trim(args.text[k])) =>
           RegexLineRows(trim(args.text[k]))
             = IF ClaimNonEmptyCells(parseFixedWidthLine(trim(args.text[k]))) >= 3
                 THEN <<parseFixedWidthLine(trim(args.text[k]))>>
                 ELSE <<>>

\* what the code does: such a line always emits its positional splitting,
\* which has 5 cells whatever they hold
C21_Observed ==
  ClaimRegexGaveRows =>
    \A k \in 1..Len(args.text) :
      ClaimDatedNonMatch(trim(args.text[k])) =>
        /\ Len(parseFixedWidthLine(trim(args.text[k]))) = 5
        /\ RegexLineRows(trim(args.text[k])) = <<parseFixedWidthLine(trim(args.text[k]))>>

\* the bare date has given a row with one non-empty cell
C21_ObservedWitness ==
  /\ ClaimRegexGaveRows
  /\ args.text = <<LineHeader, LineBareDate>>
  /\ locals.rows = <<<<T("06/03"), T(""), T(""), T(""), T("")>>>>

\* the segments of a description between runs of 2 spaces or more: the first
\* one, and the others joined by a space
ClaimShortAndDetail(description) ==
  <<Str(Head(SplitOnSpaces(description, 1, <<>>))),
    Str(Join(Tail(SplitOnSpaces(description, 1, <<>>))))>>

\* cells 2 and 3 of a row
ClaimDescriptionCells(row) == <<row[2], row[3]>>

\* C22: the positional splitting of a line derives the short and the detail
\* description from the description text as the regex strategy does (first
\* segment, remaining segments joined): for a line that matches the
\* transaction pattern the two give the same pair, a single segment included.
C22_SameSplit ==
  ClaimRegexGaveRows =>
    \A k \in 1..Len(args.text) :
      TransactionMatch(trim(args.text[k])) # <<>> =>
        /\ ClaimDescriptionCells(RegexLineRows(trim(args.text[k]))[1])
             = ClaimShortAndDetail(TransactionMatch(trim(args.text[k]))[2])
        /\ ClaimDescriptionCells(parseFixedWidthLine(trim(args.text[k])))
             = ClaimShortAndDetail(TransactionMatch(trim(args.text[k]))[2])

\* what the code does: the positional splitting repeats the whole
\* description as the detail when there is one segment only
C22_Observed ==
  ClaimRegexGaveRows =>
    \A k \in 1..Len(args.text) :
      TransactionMatch(trim(args.text[k])) # <<>> =>
        /\ ClaimDescriptionCells(RegexLineRows(trim(args.text[k]))[1])
             = ClaimShortAndDetail(TransactionMatch(trim(args.text[k]))[2])
        /\ parseFixedWidthLine(trim(args.text[k]))[2]
             = ClaimShortAndDetail(TransactionMatch(trim(args.text[k]))[2])[1]
        /\ parseFixedWidthLine(trim(args.text[k]))[3]
             = IF ClaimShortAndDetail(TransactionMatch(trim(args.text[k]))[2])[2] = Str(<<>>)
                 THEN Str(TransactionMatch(trim(args.text[k]))[2])
                 ELSE ClaimShortAndDetail(TransactionMatch(trim(args.text[k]))[2])[2]

\* one segment: the regex row has an empty detail, the positional splitting
\* of the same line has the description twice
C22_ObservedWitness ==
  /\ ClaimRegexGaveRows
  /\ args.text = <<LineHeader, LineTarik>>
  /\ locals.rows = <<<<T("02/03"), T("TARIK TUNAI"), T(""), T("50,00 DB"), T("950,00")>>>>
  /\ parseFixedWidthLine(trim(LineTarik))
       = <<T("02/03"), T("TARIK TUNAI"), T("TARIK TUNAI"), T("50,00 DB"), T("950,00")>>

\* a date cell the Table Extractor accepts: it begins with a day/month
\* fragment, with a slash or a dash
ClaimExtractorDate(cell) == DateFragmentEnd(trim(ClaimText(cell)), 1) # 0

\* the merge loop is at a row of 5 cells whose date cell is such a fragment
C23_AtDatedRow ==
  /\ pc = "mergeTransactionLines"
  /\ locals.k <= Len(args.rows)
  /\ Len(CurrentRow) >= 5
  /\ ClaimExtractorDate(CurrentRow[1])

\* the step flushes the accumulator and replaces it by the row
C23_StartsTransaction ==
  /\ locals'.mergedRows = locals.mergedRows \o locals.currentTransaction
  /\ locals'.currentTransaction = <<CurrentRow>>

\* C23: every row whose date cell is a date fragment the Table Extractor
\* accepts, with a slash or with a dash, is taken by mergeTransactionLines as
\* the start of a new transaction, never as a continuation.
C23_DatedRowStarts ==
  [][C23_AtDatedRow => C23_StartsTransaction]_vars

\* what the code does: a row starts a transaction when its date cell holds a
\* fragment with a slash, and is merged as a continuation when it does not,
\* the dash form included
C23_Observed ==
  [][C23_AtDatedRow =>
       IF ClaimDateFragment(ClaimText(CurrentRow[1]))
         THEN C23_StartsTransaction
         ELSE /\ locals'.mergedRows = locals.mergedRows
              /\ locals'.currentTransaction # <<CurrentRow>>]_vars

\* the row dated 05-06 has been merged into the transaction of 01/02
C23_ObservedWitness ==
  /\ pc = "mergeTransactionLines"
  /\ locals.k = 3
  /\ SubSeq(args.rows, 1, 2) = <<RowD1, RowK4>>
  /\ locals.mergedRows = <<>>
  /\ locals.currentTransaction = <<<<T("01/02"), T("A C"), T("detail1 e"), T("100"), T("900")>>>>

\* ---------------------------------------------------------------------
\* C24
\* ---------------------------------------------------------------------

ClaimHasFiveCells(row) == Len(row) >= 5

\* the rows with the short ones taken out
ClaimWithoutShort(rows) == SelectSeq(rows, ClaimHasFiveCells)

\* the loop is at a row of fewer than 5 cells
C24_AtShortRow ==
  /\ pc = "mergeTransactionLines"
  /\ locals.k <= Len(args.rows)
  /\ Len(CurrentRow) < 5

\* the step over a short row leaves the accumulator and the output alone
C24_StepKeepsAccumulator ==
  C24_AtShortRow =>
    /\ locals'.mergedRows = locals.mergedRows
    /\ locals'.currentTransaction = locals.currentTransaction
    /\ pc' = "mergeTransactionLines"

\* the result is the one the rows give without their short rows
C24_AsIfAbsent ==
  pc = "done" =>
    /\ ret = mergeTransactionLines(ClaimWithoutShort(args.rows))
    /\ cleanTransactionData(args.rows)
         = cleanTransactionData(ClaimWithoutShort(args.rows))

\* C24: mergeTransactionLines and cleanTransactionData pass over a row of
\* fewer than 5 cells, dated or not: the step over it changes neither the
\* accumulator nor the output, every call returns, and the result is the
\* one the remaining rows give on their own.
C24_ShortRowSkipped ==
  /\ [][C24_StepKeepsAccumulator]_vars
  /\ [](C24_AsIfAbsent)

\* a short dated row between a transaction and its continuation
C24_Witness ==
  /\ pc = "done"
  /\ Len(args.rows) = 3
  /\ ClaimHasFiveCells(args.rows[1]) /\ StartsTransaction(args.rows[1])
  /\ ~ClaimHasFiveCells(args.rows[2]) /\ StartsTransaction(args.rows[2])
  /\ ClaimHasFiveCells(args.rows[3]) /\ ~StartsTransaction(args.rows[3])
  /\ Len(ret) = 1
  /\ ret # <<args.rows[1]>>

\* ---------------------------------------------------------------------
\* C25
\* ---------------------------------------------------------------------

\* two records agree on every field but CATEGORY
ClaimSameButCategory(before, after) ==
  /\ after.TANGGAL = before.TANGGAL
  /\ after.KETERANGAN = before.KETERANGAN
  /\ after.DETAIL_TRANSAKSI = before.DETAIL_TRANSAKSI
  /\ after.MUTASI = before.MUTASI
  /\ after.SALDO = before.SALDO

\* the records after a call are the records before it, one for one
C25_RecordsKept ==
  pc \in {"applied", "reapplied"} =>
    /\ Len(locals.data) = Len(args.data)
    /\ \A k \in 1..Len(args.data) :
         ClaimSameButCategory(args.data[k], locals.data[k])

\* no step writes to the rule list
C25_RulesKept == args'.categoryConfig = args.categoryConfig

\* C25: applyCategoriesToData changes only the CATEGORY field: the number
\* and order of the records and each record's TANGGAL, KETERANGAN, DETAIL
\* TRANSAKSI, MUTASI and SALDO are as before the call, and the rule list is
\* unchanged.
C25_OnlyCategoryChanges ==
  /\ [](C25_RecordsKept)
  /\ [][C25_RulesKept]_vars

\* two records were classified, one of them changing its CATEGORY
C25_Witness ==
  /\ pc = "applied"
  /\ Len(args.data) >= 2
  /\ Len(args.categoryConfig) >= 1
  /\ args.data[1] # args.data[2]
  /\ \E k \in 1..Len(args.data) :
       /\ args.data[k].CATEGORY = T("Old")
       /\ locals.data[k].CATEGORY = T("Y")

\* ---------------------------------------------------------------------
\* C26
\* ---------------------------------------------------------------------

\* the text reached the strategies and the regex strategy emitted no row
ClaimRegexGaveNothing ==
  /\ ClaimReadableText
  /\ parseTableWithRegex(args.text) = <<>>

\* every row is an undated row of 5 cells
ClaimAllUndated(rows) ==
  \A k \in 1..Len(rows) : Len(rows[k]) = 5 /\ rows[k][1] = Str(<<>>)

\* the fallback runs on the texts for which the regex strategy emitted no
\* row; its rows are undated continuation rows and none survives the merge
C26_FallbackRowsUndated ==
  pc = "parseTableFromText" =>
    /\ locals.rows = <<>>
    /\ ClaimAllUndated(parseTableFromText(args.text))
    /\ mergeTransactionLines(FilterValid(parseTableFromText(args.text))) = <<>>

\* the extractor then returns no merged row and the request ends there
C26_NoMergedRows ==
  pc = "done" /\ ClaimReadableText /\ ClaimAllUndated(locals.rows) =>
    /\ locals.rawRows = <<>>
    /\ ret = ClaimNoTablesFound

\* C26: for every input text, if the regex strategy emits zero rows then
\* extractTablesFromPdf returns zero merged rows: the positional fallback
\* emits undated continuation rows only, the merger drops them, and the
\* fallback contributes no transaction to the output.
C26_FallbackContributesNothing == C26_FallbackRowsUndated /\ C26_NoMergedRows

\* the fallback did emit rows, and none of them survived the merge
C26_Witness ==
  /\ pc = "done"
  /\ ClaimRegexGaveNothing
  /\ parseTableFromText(args.text) # <<>>
  /\ FilterValid(parseTableFromText(args.text)) # <<>>
  /\ locals.rawRows = <<>>

\* ---------------------------------------------------------------------
\* C27
\* ---------------------------------------------------------------------

\* the extractor's output for the rows: pdfParser lines 208-214
ClaimExtractorMerged(rows) == mergeTransactionLines(FilterValid(rows))

\* C27: merging is idempotent on its own output: merging the merged rows
\* again gives the merged rows, and the validate-and-merge pass that
\* cleanTransactionData runs over the extractor's merged rows returns them
\* as they are, none dropped, added or altered.
C27_MergeIdempotent ==
  pc = "done" =>
    /\ mergeTransactionLines(ret) = ret
    /\ ClaimExtractorMerged(ClaimExtractorMerged(args.rows))
         = ClaimExtractorMerged(args.rows)

\* two transactions came out, a continuation having been merged into one
C27_Witness ==
  /\ pc = "done"
  /\ Len(args.rows) = 3
  /\ Len(ret) = 2
  /\ \E k \in 1..2 : ret[k] \notin {args.rows[j] : j \in 1..3}
  /\ ClaimExtractorMerged(args.rows) = ret
  /\ mergeTransactionLines(ret) = ret

(***************************************************************************)
(* Specification of one useCategories hook called directly: addCategory,    *)
(* updateCategory and deleteCategory on the categories state and the        *)
(* localStorage entry.  locals.call is the call made last.                  *)
(***************************************************************************)
\* the lists the hook starts from: their names differ ignoring case
SampleLists ==
  {<<>>,
   <<CategoryEntry(Chars("Food"), <<Chars("kopi")>>)>>,
   <<CategoryEntry(Chars("Food"), <<Chars("kopi")>>),
     CategoryEntry(Chars("Gift"), <<Chars("kado")>>)>>,
   <<CategoryEntry(Chars("GIFT"), <<Chars("kado")>>),
     CategoryEntry(Chars("food"), <<Chars("kopi"), Chars("teh")>>)>>}

NoCall == [op |-> "none", name |-> <<>>, newName |-> <<>>, keywords |-> <<>>]

InitHook ==
  /\ pc = "rendered"
  /\ args \in {[categories |-> c] : c \in SampleLists}
  /\ locals = [categories |-> args.categories, storage |-> Json(args.categories),
               edits |-> 0, call |-> NoCall]
  /\ ret = NoValue

\* the hook after a call: the array in memory as the call left it, and
\* localStorage.setItem of lines 40-43 when the call saved
HookReturns(call, result) ==
  /\ locals' = [categories |-> result.categories,
                storage |-> IF result.saved THEN Json(result.categories)
                                            ELSE locals.storage,
                edits |-> locals.edits + 1,
                call |-> call]
  /\ ret' = [t |-> result.value, v |-> <<>>]
  /\ UNCHANGED <<pc, args>>

\* useCategories lines 45-70
CallAddCategory ==
  /\ pc = "rendered"
  /\ locals.edits < MaxEdits
  /\ \E name \in SampleNames, keywords \in SampleKeywords :
       HookReturns([op |-> "addCategory", name |-> name, newName |-> <<>>,
                    keywords |-> keywords],
                   addCategory(locals.categories, name, keywords))

\* useCategories lines 72-117
CallUpdateCategory ==
  /\ pc = "rendered"
  /\ locals.edits < MaxEdits
  /\ \E oldName \in SampleNames, newName \in SampleNames,
        keywords \in SampleKeywords :
       HookReturns([op |-> "updateCategory", name |-> oldName,
                    newName |-> newName, keywords |-> keywords],
                   updateCategory(locals.categories, oldName, newName, keywords))

\* useCategories lines 119-130
CallDeleteCategory ==
  /\ pc = "rendered"
  /\ locals.edits < MaxEdits
  /\ \E name \in SampleNames :
       HookReturns([op |-> "deleteCategory", name |-> name, newName |-> <<>>,
                    keywords |-> <<>>],
                   deleteCategory(locals.categories, name))

NextHook == CallAddCategory \/ CallUpdateCategory \/ CallDeleteCategory

SpecHook == InitHook /\ [][NextHook]_vars

\* ---------------------------------------------------------------------
\* C28
\* ---------------------------------------------------------------------

\* the step is a call of updateCategory that threw or returned false
ClaimFailedUpdate ==
  /\ locals'.edits = locals.edits + 1
  /\ locals'.call.op = "updateCategory"
  /\ ret'.t \in {"threw", "false"}

C28_NothingChanged ==
  ClaimFailedUpdate =>
    /\ locals'.categories = locals.categories
    /\ locals'.storage = locals.storage

\* C28: updateCategory is all-or-nothing: a call that throws or returns
\* false leaves the category list in memory, with the name and keywords of
\* every category object in it, and the localStorage copy unchanged.
C28_AllOrNothing == [][C28_NothingChanged]_vars

\* what the code does: localStorage and the keywords are left alone, and so
\* is the list when the call returns false or the new name is blank; a call
\* that throws for its keywords has renamed the category in memory already
C28_ObservedStep ==
  ClaimFailedUpdate =>
    /\ locals'.storage = locals.storage
    /\ Len(locals'.categories) = Len(locals.categories)
    /\ \A k \in 1..Len(locals.categories) :
         /\ locals'.categories[k].keywords = locals.categories[k].keywords
         /\ \/ locals'.categories[k].category = locals.categories[k].category
            \/ /\ ret'.t = "threw"
               /\ CleanedKeywords(locals'.call.keywords) = <<>>
               /\ k = findIndex(locals.categories,
                                toLowerCase(locals'.call.name), 1)
               /\ locals'.categories[k].category
                    = Str(trim(locals'.call.newName))
    /\ (ret'.t = "false" \/ trim(locals'.call.newName) = <<>>)
         => locals'.categories = locals.categories

C28_Observed == [][C28_ObservedStep]_vars

\* a call that threw has renamed a category in memory and not in localStorage
C28_ObservedWitness ==
  /\ locals.edits = 1
  /\ locals.call.op = "updateCategory"
  /\ ret.t = "threw"
  /\ locals.storage = Json(args.categories)
  /\ Len(locals.categories) = Len(args.categories)
  /\ \E k \in 1..Len(args.categories) :
       locals.categories[k].category # args.categories[k].category

\* ---------------------------------------------------------------------
\* C30
\* ---------------------------------------------------------------------

\* no two entries of the list have names that are equal ignoring case
ClaimDistinctNames(categories) ==
  \A i \in 1..Len(categories), j \in 1..Len(categories) :
    i # j =>
      toLowerCase(categories[i].category.v) # toLowerCase(categories[j].category.v)

\* the entries whose name is the given one ignoring case
ClaimNamed(categories, name) ==
  {k \in 1..Len(categories) :
     toLowerCase(categories[k].category.v) = toLowerCase(name)}

\* the step is an add whose trimmed name is taken, or a rename of an
\* existing entry to a trimmed name another entry has
ClaimWouldDuplicate ==
  /\ locals'.edits = locals.edits + 1
  /\ \/ /\ locals'.call.op = "addCategory"
        /\ ClaimNamed(locals.categories, trim(locals'.call.name)) # {}
     \/ /\ locals'.call.op = "updateCategory"
        /\ ClaimNamed(locals.categories, locals'.call.name) # {}
        /\ trim(locals'.call.newName) # <<>>
        /\ ClaimNamed(locals.categories, trim(locals'.call.newName))
             \ ClaimNamed(locals.categories, locals'.call.name) # {}

C30_DuplicateRefused ==
  ClaimWouldDuplicate =>
    /\ ret'.t = "false"
    /\ locals'.categories = locals.categories
    /\ locals'.storage = locals.storage

C30_NamesDistinct ==
  /\ ClaimDistinctNames(locals.categories)
  /\ ClaimDistinctNames(locals.storage.v)

\* C30: starting from a list whose names are pairwise distinct ignoring
\* case, after any sequence of addCategory, updateCategory and
\* deleteCategory calls no two categories have names equal ignoring case,
\* and an add or rename that would create such a duplicate returns false
\* and changes nothing.
C30_NoDuplicateNames ==
  /\ [](C30_NamesDistinct)
  /\ [][C30_DuplicateRefused]_vars

\* after a call that changed the list, an add under a name that differs
\* from an entry's only in case and padding was refused
C30_Witness ==
  /\ locals.edits = 2
  /\ locals.storage # Json(args.categories)
  /\ Len(locals.categories) >= 2
  /\ locals.call.op = "addCategory"
  /\ locals.call.name = Chars(" food ")
  /\ ret.t = "false"
  /\ \E k \in 1..Len(locals.categories) :
       locals.categories[k].category = T("Food")

\* a rename to a name another entry has, in another case, was refused
C30_WitnessRename ==
  /\ locals.call.op = "updateCategory"
  /\ ret.t = "false"
  /\ ClaimNamed(locals.categories, locals.call.name) # {}
  /\ ClaimNamed(locals.categories, trim(locals.call.newName))
       \ ClaimNamed(locals.categories, locals.call.name) # {}
  /\ \A k \in 1..Len(locals.categories) :
       locals.categories[k].category.v # trim(locals.call.newName)

\* ---------------------------------------------------------------------
\* C29
\* ---------------------------------------------------------------------

\* the call made last was an addCategory that returned true
ClaimLastAdded ==
  /\ locals.call.op = "addCategory"
  /\ ret.t = "true"

\* the list has a category of that name
ClaimHasCategory(categories, name) ==
  \E k \in 1..Len(categories) : categories[k].category.v = trim(name)

ClaimInStorage ==
  /\ locals.storage # Null
  /\ ClaimHasCategory(locals.storage.v, locals.call.name)

\* the modal's hook has the category, once its effect has run
ClaimInList ==
  pc # "mounting" => ClaimHasCategory(locals.modal, locals.call.name)

\* C29: a category for which addCategory returned true stays in
\* localStorage and in the hook's list as long as no delete or update
\* follows; the initial load of the starter categories completing after the
\* add does not discard it.
C29_AddedStays == ClaimLastAdded => ClaimInStorage /\ ClaimInList

\* what the code does: the category is gone from localStorage, or from the
\* list, exactly when a response of /api/categories was handled after the
\* add and put the starter categories in its place; with an entry in
\* localStorage at the mount there is no fetch and the category stays
C29_Observed ==
  ClaimLastAdded =>
    /\ ~ClaimInStorage =>
         /\ args.stored = Null
         /\ locals.storage = Json(getStarterCategories)
    /\ ~ClaimInList =>
         /\ args.stored = Null
         /\ locals.modal = getStarterCategories
         /\ locals.modalLoaded

\* the category that was added is neither in localStorage nor in the list
C29_ObservedWitness ==
  /\ ClaimLastAdded
  /\ pc = "idle"
  /\ locals.edits = 1
  /\ locals.call.name = Chars("Food")
  /\ ~ClaimInStorage
  /\ ~ClaimHasCategory(locals.modal, locals.call.name)
====
